---- MODULE Spec2Model ----
(***************************************************************************)
(* Calibrated closed-loop motion control of node_gtatrackclone.            *)
(*                                                                         *)
(* Numbers.  Axis values, steps and tolerances are integers counted in     *)
(* ticks of 0.00001 axis units: the sensor reports three decimals (one     *)
(* reading resolution = MILLI ticks), and the extra two digits keep the    *)
(* relative tolerance relPct/100 * span exact.  Arithmetic is therefore    *)
(* the exact arithmetic of the source's formulas.                          *)
(***************************************************************************)
EXTENDS Integers, Sequences, FiniteSets, TLC

\* 0.001 axis units, in ticks
MILLI == 100
\* 1.0 axis units, in ticks
ONE == 100000
\* the number 1.0 of a relPct option, in hundredths
PCT == 100

\* stands for every non-finite Number(...)
NaN == 0 - 2000000000

Abs(x) == IF x < 0 THEN 0 - x ELSE x
Max(a, b) == IF a >= b THEN a ELSE b
Min(a, b) == IF a <= b THEN a ELSE b
IsFinite(x) == x # NaN
\* Math.floor(a / b) for b # 0
FloorDiv(a, b) == IF b > 0 THEN a \div b ELSE (0 - a) \div (0 - b)

(***************************************************************************)
(* helpers/keys.js                                                         *)
(***************************************************************************)
PS_MAP ==
  [ CROSS |-> "enter", CIRCLE |-> "backspace", SQUARE |-> "s",
    TRIANGLE |-> "c", DPAD_UP |-> "up", DPAD_DOWN |-> "down",
    DPAD_LEFT |-> "left", DPAD_RIGHT |-> "right",
    L1 |-> "q", L2 |-> "w", R1 |-> "e", R2 |-> "r" ]

Buttons == DOMAIN PS_MAP

\* PS_MAP[name.toUpperCase()], "undefined" for a name that is not mapped
KeyOf(name) == IF name \in Buttons THEN PS_MAP[name] ELSE "undefined"

(***************************************************************************)
(* helpers/moveTo.js : planning helpers                                    *)
(***************************************************************************)
RECURSIVE InsertDesc(_, _)
\* position of p in an already sorted (descending) list, after its equals:
\* Array.prototype.sort is stable
InsertDesc(p, sorted) ==
  IF sorted = <<>> THEN <<p>>
  ELSE IF Head(sorted).step >= p.step
       THEN <<Head(sorted)>> \o InsertDesc(p, Tail(sorted))
       ELSE <<p>> \o sorted

RECURSIVE SortDesc(_)
SortDesc(s) ==
  IF s = <<>> THEN <<>>
  ELSE InsertDesc(s[Len(s)], SortDesc(SubSeq(s, 1, Len(s) - 1)))

ValidStep(p) == IsFinite(p.step) /\ p.step > 0 /\ IsFinite(p.ms) /\ p.ms > 0

toMapByStep(calibration) ==
  LET mapped == [i \in 1..Len(calibration) |->
                   [step    |-> calibration[i].target,
                    ms      |-> calibration[i].ms,
                    heldKey |-> IF calibration[i].heldKey = "undefined"
                                THEN "-" ELSE calibration[i].heldKey]]
  IN SortDesc(SelectSeq(mapped, ValidStep))

\* Math.max(1, Math.round(msEach * repeats)) for the integer durations used
MsOf(msEach, repeats) == Max(1, msEach * repeats)

RECURSIVE SumDist(_)
SumDist(picks) ==
  IF picks = <<>> THEN 0
  ELSE Head(picks).step * Head(picks).repeats + SumDist(Tail(picks))

RECURSIVE SumMs(_)
SumMs(detail) ==
  IF detail = <<>> THEN 0
  ELSE MsOf(Head(detail).msEach, Head(detail).repeats) + SumMs(Tail(detail))

RECURSIVE SumRepeats(_)
SumRepeats(detail) ==
  IF detail = <<>> THEN 0
  ELSE Head(detail).repeats + SumRepeats(Tail(detail))

RECURSIVE consumePlanRoundsUp(_, _, _)
\* consumePlan with Math.ceil in place of Math.floor
consumePlanRoundsUp(subPlan, cap, acc) ==
  IF subPlan = <<>> THEN acc
  ELSE IF acc.covered >= cap THEN acc
  ELSE LET p          == Head(subPlan)
           remaining  == cap - acc.covered
           maxRepeats == (remaining + p.step - 1) \div p.step
       IN IF maxRepeats <= 0
          THEN consumePlanRoundsUp(Tail(subPlan), cap, acc)
          ELSE consumePlanRoundsUp(Tail(subPlan), cap,
                 [covered |-> acc.covered + maxRepeats * p.step,
                  picks   |-> Append(acc.picks,
                                [heldKey |-> p.heldKey, step |-> p.step,
                                 repeats |-> maxRepeats, msEach |-> p.ms])])

RECURSIVE consumePlan(_, _, _)
\* acc = [covered, picks]; the loop body of consumePlan for each p in order
consumePlan(subPlan, cap, acc) ==
  IF subPlan = <<>> THEN acc
  ELSE IF acc.covered >= cap THEN acc
  ELSE LET p          == Head(subPlan)
           remaining  == cap - acc.covered
           maxRepeats == remaining \div p.step
       IN IF maxRepeats <= 0
          THEN consumePlan(Tail(subPlan), cap, acc)
          ELSE consumePlan(Tail(subPlan), cap,
                 [covered |-> acc.covered + maxRepeats * p.step,
                  picks   |-> Append(acc.picks,
                                [heldKey |-> p.heldKey, step |-> p.step,
                                 repeats |-> maxRepeats, msEach |-> p.ms])])

RECURSIVE GroupAdjacent(_, _)
\* "Group adjacent same-heldKey picks"
GroupAdjacent(picks, segments) ==
  IF picks = <<>> THEN segments
  ELSE LET pick == Head(picks)
           d    == [step |-> pick.step, repeats |-> pick.repeats,
                    msEach |-> pick.msEach]
           n    == Len(segments)
       IN IF n > 0 /\ segments[n].heldKey = pick.heldKey
          THEN GroupAdjacent(Tail(picks),
                 [segments EXCEPT ![n].detail = Append(@, d)])
          ELSE GroupAdjacent(Tail(picks),
                 Append(segments, [heldKey |-> pick.heldKey, detail |-> <<d>>]))

\* "Summaries per segment"
Summarize(segments) ==
  [i \in 1..Len(segments) |->
     [heldKey      |-> segments[i].heldKey,
      detail       |-> segments[i].detail,
      msTotal      |-> SumMs(segments[i].detail),
      repeatsTotal |-> SumRepeats(segments[i].detail)]]

NullPlan == [null |-> TRUE, segments |-> <<>>, covered |-> 0]

\* aggregateAllHeldKeys with the guard `cap <= 0` written `cap >= 0`
aggregateAllHeldKeysNeverPlans(absRem, plan, tol) ==
  LET cap       == Max(0, absRem - tol)
      wholePlan == SelectSeq(plan, LAMBDA p : p.step >= ONE)
      fracPlan  == SelectSeq(plan, LAMBDA p : p.step < ONE)
      a1        == consumePlan(wholePlan, cap, [covered |-> 0, picks |-> <<>>])
      a2        == consumePlan(fracPlan, cap, a1)
  IN IF cap >= 0 THEN NullPlan
     ELSE IF a2.picks = <<>> THEN NullPlan
     ELSE [null     |-> FALSE,
           segments |-> Summarize(GroupAdjacent(a2.picks, <<>>)),
           covered  |-> a2.covered]

\* aggregateAllHeldKeys with the cap taken as absRem, tol left out
aggregateAllHeldKeysNoTol(absRem, plan, tol) ==
  LET cap       == Max(0, absRem)
      wholePlan == SelectSeq(plan, LAMBDA p : p.step >= ONE)
      fracPlan  == SelectSeq(plan, LAMBDA p : p.step < ONE)
      a1        == consumePlan(wholePlan, cap, [covered |-> 0, picks |-> <<>>])
      a2        == consumePlan(fracPlan, cap, a1)
  IN IF cap <= 0 THEN NullPlan
     ELSE IF a2.picks = <<>> THEN NullPlan
     ELSE [null     |-> FALSE,
           segments |-> Summarize(GroupAdjacent(a2.picks, <<>>)),
           covered  |-> a2.covered]

aggregateAllHeldKeys(absRem, plan, tol) ==
  LET cap       == Max(0, absRem - tol)
      wholePlan == SelectSeq(plan, LAMBDA p : p.step >= ONE)
      fracPlan  == SelectSeq(plan, LAMBDA p : p.step < ONE)
      a1        == consumePlan(wholePlan, cap, [covered |-> 0, picks |-> <<>>])
      a2        == consumePlan(fracPlan, cap, a1)
  IN IF cap <= 0 THEN NullPlan
     ELSE IF a2.picks = <<>> THEN NullPlan
     ELSE [null     |-> FALSE,
           segments |-> Summarize(GroupAdjacent(a2.picks, <<>>)),
           covered  |-> a2.covered]

\* index of the first element of s satisfying Test, 0 when there is none
FirstIdx(s, Test(_)) ==
  IF \E i \in 1..Len(s) : Test(s[i])
  THEN CHOOSE i \in 1..Len(s) :
         Test(s[i]) /\ \A j \in 1..(i - 1) : ~Test(s[j])
  ELSE 0

HeldKeysInOrder(plan) ==
  \* Map insertion order of byHK: the order of first appearance in plan
  LET firsts == {i \in 1..Len(plan) :
                   \A j \in 1..(i - 1) : plan[j].heldKey # plan[i].heldKey}
  IN [k \in 1..Cardinality(firsts) |->
        plan[CHOOSE i \in firsts :
               Cardinality({j \in firsts : j < i}) = k - 1].heldKey]

RECURSIVE pickHK(_, _, _, _)
pickHK(hks, absRem, plan, best) ==
  IF hks = <<>> THEN best.hk
  ELSE LET hk    == Head(hks)
           items == SelectSeq(plan, LAMBDA p : p.heldKey = hk)
           i     == FirstIdx(items, LAMBDA x : x.step <= absRem)
       IN IF i # 0 /\ items[i].step > best.step
          THEN pickHK(Tail(hks), absRem, plan,
                      [hk |-> hk, step |-> items[i].step])
          ELSE pickHK(Tail(hks), absRem, plan, best)

pickHeldKeyForRemaining(absRem, plan) ==
  pickHK(HeldKeysInOrder(plan), absRem, plan, [hk |-> "-", step |-> 0])

NoEntry == [step |-> 0, ms |-> 0, heldKey |-> "-"]

\* returns NoEntry for null
pickLargestStepWithinHK(absRem, plan, heldKey, tol) ==
  LET cap    == Max(0, absRem - tol)
      sameHK == SelectSeq(plan, LAMBDA p : p.heldKey = heldKey)
      i      == FirstIdx(sameHK, LAMBDA p : p.step <= cap)
  IN IF i = 0 THEN NoEntry ELSE sameHK[i]

(***************************************************************************)
(* helpers/moveToTest.js : two-phase planner                               *)
(***************************************************************************)
splitWhole(plan) == SelectSeq(plan, LAMBDA p : p.step >= ONE)
\* frac: plan.filter((p) => p.step <= 1)
splitFracWithOne(plan) == SelectSeq(plan, LAMBDA p : p.step <= ONE)
splitFrac(plan) == SelectSeq(plan, LAMBDA p : p.step < ONE)

\* the calls (cap, remaining, step) among GreedyInputs in which the double
\* quotient remaining / p.step of an exact multiple comes out just below the
\* integer, as 3.3 / 1.1 = 2.9999999999999996 does
QuotientBelow ==
  { <<3300 * MILLI, 1100 * MILLI, 1100 * MILLI>>,
    <<3300 * MILLI, 3300 * MILLI, 1100 * MILLI>>,
    <<5500 * MILLI, 1100 * MILLI, 1100 * MILLI>>,
    <<6600 * MILLI, 2200 * MILLI, 1100 * MILLI>>,
    <<6600 * MILLI, 6600 * MILLI, 1100 * MILLI>>,
    <<6600 * MILLI, 6600 * MILLI, 2200 * MILLI>>,
    <<7700 * MILLI, 1100 * MILLI, 1100 * MILLI>> }

\* Math.floor(remaining / p.step) rounding the quotient up
FloorOfQuotientUp(cap, remaining, step) == (remaining + step - 1) \div step

\* Math.floor(remaining / p.step) on doubles
FloorOfQuotient(cap, remaining, step) ==
  IF <<cap, remaining, step>> \in QuotientBelow
  THEN remaining \div step - 1
  ELSE remaining \div step

\* for (const p of subPlan) { if (covered >= cap) break; ... }
RECURSIVE greedyPicks(_, _, _)
greedyPicks(subPlan, cap, acc) ==
  IF subPlan = <<>> THEN acc
  ELSE IF acc.covered >= cap THEN acc
  ELSE LET p         == Head(subPlan)
           remaining == cap - acc.covered
           repeats   == FloorOfQuotient(cap, remaining, p.step)
       IN IF repeats <= 0
          THEN greedyPicks(Tail(subPlan), cap, acc)
          ELSE greedyPicks(Tail(subPlan), cap,
                 [covered |-> acc.covered + repeats * p.step,
                  picks   |-> Append(acc.picks,
                                [heldKey |-> p.heldKey, step |-> p.step,
                                 repeats |-> repeats, msEach |-> p.ms])])

\* residual / p.step is within 1e-12 of an integer: exact division here
DividesResidual(residual, p) == residual % p.step = 0

aggregateGreedy(cap, subPlan, exact) ==
  IF cap <= 0 \/ subPlan = <<>>
  THEN [segments |-> <<>>, covered |-> 0, exactHit |-> (cap = 0)]
  ELSE LET g        == greedyPicks(subPlan, cap, [covered |-> 0, picks |-> <<>>])
           residual == cap - g.covered
           i        == FirstIdx(subPlan, LAMBDA p : DividesResidual(residual, p))
           topoff   == exact /\ g.covered < cap /\ i # 0
                       /\ residual \div subPlan[i].step > 0
           picks    == IF topoff
                       THEN Append(g.picks,
                              [heldKey |-> subPlan[i].heldKey,
                               step    |-> subPlan[i].step,
                               repeats |-> residual \div subPlan[i].step,
                               msEach  |-> subPlan[i].ms])
                       ELSE g.picks
           covered  == IF topoff THEN cap ELSE g.covered
       IN [segments |-> Summarize(GroupAdjacent(picks, <<>>)),
           covered  |-> covered,
           exactHit |-> (covered = cap)]


(***************************************************************************)
(* State                                                                   *)
(***************************************************************************)
VARIABLES
  prog,       \* which entry point runs: "moveTo" (helpers/moveTo.js), ...
  opts,       \* the arguments of the call
  sensor,     \* "exact": read() returns the axis; "any": any reading, or failure
  axis,       \* the value the game displays (the physical axis)
  pc,         \* position of the async function
  plan, tol, current, cycle, rows, tries,   \* locals of moveTo
  aggEmpty,   \* !aggAll || aggAll.segments.length === 0 in this pre-pass cycle
  segs,       \* segments of aggAll still to execute
  act,        \* the actuation in progress: hold, dirKey, msTotal, dist, ret
  pending,    \* exception in flight inside a try/finally
  down,       \* robot keys currently toggled down
  ups,        \* per robot key: key-up events since its latest key-down
  aborted,    \* S.signal.aborted
  abortAt,    \* pc at which the abort handler ran ("" before)
  failed,     \* a sensor read has thrown
  pressed,    \* some key-down event was issued in this run
  downAfterCancel, \* a key-down event was issued after cancellation
  afterFail,  \* a read or a key-down was issued after a failed read
  first,      \* the first reading of the run (NaN before)
  planOut,    \* last plan computed: [by, absRem, tol, covered, segments]
  result,     \* returned object
  err,        \* message of the error the call rejected with
  locals      \* locals of the other entry points (batch, smallestTries, iter)

ctl == <<pc, plan, tol, current, cycle, rows, tries, aggEmpty, segs, act,
          pending, planOut, result, err, first>>
kbd == <<down, ups, pressed, downAfterCancel, afterFail>>
env == <<prog, opts, sensor, axis>>
abt == <<aborted, abortAt>>
snsr == <<failed>>
vars == <<prog, opts, sensor, axis, pc, plan, tol, current, cycle, rows,
          tries, aggEmpty, segs, act, pending, down, ups, aborted, abortAt,
          failed, pressed, downAfterCancel, afterFail, first, planOut,
          result, err, locals>>

RobotKeys == {PS_MAP[b] : b \in Buttons}

\* the callers that convert a signed rotation target and then call moveTo
RotProgs == {"runPlacementROT", "runMoveRotation"}
\* the entry points that run moveTo of helpers/moveTo.js
MoveToProgs == {"moveTo"} \cup RotProgs

NoAct == [hold |-> "-", dirKey |-> "-", msTotal |-> 0, dist |-> 0, ret |-> "-"]
NoResult == [ok |-> FALSE, reason |-> "-", steps |-> 0, final |-> NaN,
             error |-> NaN]
NoLocals == [batch |-> 0, smallestTries |-> 0, isSmallest |-> FALSE,
             repeats |-> 0, iter |-> 0]
NoPlanOut == [by |-> "-", absRem |-> 0, tol |-> 0, covered |-> 0,
              segments |-> <<>>]

(***************************************************************************)
(* helpers/keys.js : key events                                            *)
(***************************************************************************)
\* robot.keyToggle(key, "down")
keyDown(key) ==
  /\ down' = down \cup {key}
  /\ ups' = [ups EXCEPT ![key] = 0]
  /\ pressed' = TRUE
  /\ downAfterCancel' = (downAfterCancel \/ aborted)
  /\ afterFail' = (afterFail \/ failed)

\* robot.keyToggle(key, "up")
keyUp(key) ==
  /\ down' = down \ {key}
  /\ ups' = [ups EXCEPT ![key] = Min(@ + 1, 3)]
  /\ UNCHANGED <<pressed, downAfterCancel, afterFail>>

(***************************************************************************)
(* helpers/sleep.js : process-wide abort                                   *)
(***************************************************************************)
\* _abort releasing the face and shoulder buttons and the d-pad only
AbortKeysNoModifiers ==
  << "CROSS", "CIRCLE", "DPAD_UP", "DPAD_DOWN", "DPAD_LEFT", "DPAD_RIGHT",
     "L1", "L2", "R1", "R2" >>

\* _abort with the d-pad directions left out
AbortKeysNoDpad ==
  << "CROSS", "CIRCLE", "SQUARE", "TRIANGLE", "L1", "L2", "R1", "R2" >>

\* the keyUpName(...) calls of _abort, in order
AbortKeys ==
  << "CROSS", "CIRCLE", "SQUARE", "TRIANGLE", "DPAD_UP", "DPAD_DOWN",
     "DPAD_LEFT", "DPAD_RIGHT", "L1", "L2", "R1", "R2" >>

AbortReleased == {KeyOf(AbortKeys[i]) : i \in 1..Len(AbortKeys)}

\* positions at which the function is suspended on a timer or on the sensor:
\* the only points at which a SIGINT / stdin handler can run
SleepPcs == {"sleep_lead", "sleep_hold", "sleep_tail"}
ReadPcs == {"read0", "readA", "readB", "readM", "readN", "b_read0", "b_read",
            "t_read0", "t_readW", "t_readF"}
MoveReadPcs == {"read0", "readA", "readB", "readM", "readN"}
AwaitPcs == SleepPcs \cup ReadPcs

\* where process.exit(0) of _abort / onAbort leaves the program
AbortExit == "exited"

\* _abort(): release every listed button, abort the controller (the pending
\* sleep's onAbort calls process.exit(0)), process.exit(0)
_abort ==
  /\ prog \in MoveToProgs \cup {"batched", "moveToTest"}
  /\ pc \in AwaitPcs
  /\ ~aborted
  /\ down' = down \ AbortReleased
  /\ ups' = [k \in RobotKeys |->
               IF k \in AbortReleased THEN Min(ups[k] + 1, 3) ELSE ups[k]]
  /\ aborted' = TRUE
  /\ abortAt' = pc
  /\ pc' = AbortExit
  /\ UNCHANGED <<pressed, downAfterCancel, afterFail, env, locals, snsr, plan, tol,
                 current, cycle, rows, tries, aggEmpty, segs, act, pending,
                 planOut, result, err, first>>

(***************************************************************************)
(* helpers/moveTo.js : applyCalibratedBatch and the inline segment bracket *)
(* of the pre-pass (lines 267-280), which is the same code                 *)
(***************************************************************************)
HasHold(a) == a.hold # "-"

\* const hold = entry.heldKey && entry.heldKey !== "-" ? entry.heldKey : null
BatchAct(dirKey, entry, repeats, ret) ==
  [hold    |-> entry.heldKey,
   dirKey  |-> dirKey,
   msTotal |-> Max(1, Max(1, entry.ms) * repeats),
   dist    |-> entry.step * repeats,
   ret     |-> ret]

SegAct(dirKey, seg, ret) ==
  [hold    |-> seg.heldKey,
   dirKey  |-> dirKey,
   msTotal |-> seg.msTotal,
   dist    |-> SumDist(seg.detail),
   ret     |-> ret]

\* the bracket releasing the modifier before the direction key is pressed
ActBeginReleasesEarly ==
  /\ pc = "act_begin"
  /\ IF HasHold(act)
     THEN /\ down' = down
          /\ ups' = [ups EXCEPT ![KeyOf(act.hold)] = Min(@ + 1, 3)]
          /\ pressed' = TRUE
          /\ UNCHANGED <<downAfterCancel, afterFail>>
          /\ pc' = IF opts.lead > 0 THEN "sleep_lead" ELSE "tap"
     ELSE /\ pc' = "tap"
          /\ UNCHANGED kbd
  /\ UNCHANGED <<env, locals, abt, snsr, plan, tol, current, cycle, rows, tries,
                 aggEmpty, segs, act, pending, planOut, result, err, first>>

\* if (hold) { await keyDownName(hold); if (lead > 0) await sleep(lead); ...
ActBegin ==
  /\ pc = "act_begin"
  /\ IF HasHold(act)
     THEN /\ keyDown(KeyOf(act.hold))
          /\ pc' = IF opts.lead > 0 THEN "sleep_lead" ELSE "tap"
     ELSE /\ pc' = "tap"
          /\ UNCHANGED kbd
  /\ UNCHANGED <<env, locals, abt, snsr, plan, tol, current, cycle, rows, tries,
                 aggEmpty, segs, act, pending, planOut, result, err, first>>

\* the lead timer fires
SleepLeadDone ==
  /\ pc = "sleep_lead"
  /\ pc' = "tap"
  /\ UNCHANGED <<env, locals, abt, snsr, kbd, plan, tol, current, cycle, rows, tries,
                 aggEmpty, segs, act, pending, planOut, result, err, first>>

\* the bracket without try/finally: the exception leaves the call at once
AfterTapThrowNoFinally(a) == "threw"

\* where an exception thrown by tapName goes: into the finally of the
\* modifier bracket, or out of the call when there is no bracket
AfterTapThrow(a) ==
  IF HasHold(a)
  THEN (IF opts.tail > 0 THEN "sleep_tail" ELSE "release_hold")
  ELSE "threw"

\* tapName(dirKey, msTotal): throws for an unknown button, else tap(): keyDown
tapName ==
  /\ pc = "tap"
  /\ IF KeyOf(act.dirKey) = "undefined"
     THEN /\ pc' = AfterTapThrow(act)
          /\ IF AfterTapThrow(act) = "threw"
             THEN pending' = pending /\ err' = "Unknown button"
             ELSE pending' = "Unknown button" /\ err' = err
          /\ UNCHANGED kbd
     ELSE /\ keyDown(KeyOf(act.dirKey))
          /\ pc' = "sleep_hold"
          /\ UNCHANGED <<pending, err>>
  /\ UNCHANGED <<env, locals, abt, snsr, plan, tol, current, cycle, rows, tries,
                 aggEmpty, segs, act, planOut, result, first>>

\* the displayed value after holding dirKey for the calibrated duration
Moved(a) ==
  IF sensor # "exact" THEN axis
  ELSE IF a.dirKey = opts.dirKeys.positive THEN axis + a.dist
  ELSE axis - a.dist

\* the hold timer fires: tap()'s finally releases the key
SleepHoldDone ==
  /\ pc = "sleep_hold"
  /\ keyUp(KeyOf(act.dirKey))
  /\ axis' = Moved(act)
  /\ pc' = IF HasHold(act)
           THEN (IF opts.tail > 0 THEN "sleep_tail" ELSE "release_hold")
           ELSE act.ret
  /\ UNCHANGED <<prog, opts, sensor, locals, abt, snsr, plan, tol, current, cycle,
                 rows, tries, aggEmpty, segs, act, pending, planOut, result,
                 err, first>>

\* finally { if (tail > 0) await sleep(tail); ...
SleepTailDone ==
  /\ pc = "sleep_tail"
  /\ pc' = "release_hold"
  /\ UNCHANGED <<env, locals, abt, snsr, kbd, plan, tol, current, cycle, rows, tries,
                 aggEmpty, segs, act, pending, planOut, result, err, first>>

\* ... await keyUpName(hold); } and the exception, if any, leaves the call
ReleaseHold ==
  /\ pc = "release_hold"
  /\ keyUp(KeyOf(act.hold))
  /\ IF pending # ""
     THEN pc' = "threw" /\ err' = pending /\ pending' = ""
     ELSE pc' = act.ret /\ UNCHANGED <<err, pending>>
  /\ UNCHANGED <<env, locals, abt, snsr, plan, tol, current, cycle, rows, tries,
                 aggEmpty, segs, act, planOut, result, first>>

(***************************************************************************)
(* helpers/moveTo.js : moveTo                                              *)
(***************************************************************************)
\* Math.abs(target) || Math.abs(current) || 1, then Math.max(1, ...)
MAX_PREPASS_CYCLES == 9
Span(target, cur) ==
  Max(ONE, IF Abs(target) # 0 THEN Abs(target)
           ELSE IF Abs(cur) # 0 THEN Abs(cur) ELSE ONE)

\* the tolerance taken as the distance between its two parts
TolOfDifference(o, cur) ==
  Abs(o.absTol - (o.relPct * Span(o.target, cur)) \div (100 * PCT))

\* Math.max(absTol, (relPct / 100.0) * span); relPct is counted in hundredths
TolOf(o, cur) ==
  Max(o.absTol, (o.relPct * Span(o.target, cur)) \div (100 * PCT))

\* the direction keys swapped
DirKeyForSwapped(remaining) ==
  IF remaining > 0 THEN opts.dirKeys.negative ELSE opts.dirKeys.positive

\* lines 264, 321, 364-366, 409-410: target - current > 0 ? positive : negative
DirKeyFor(remaining) ==
  IF remaining > 0 THEN opts.dirKeys.positive ELSE opts.dirKeys.negative

\* lines 212-220: argument checks and the plan
Start ==
  /\ prog \in MoveToProgs
  /\ pc = "start"
  /\ IF Len(opts.calibration) = 0
     THEN /\ pc' = "threw"
          /\ err' = "calibration is required and must be a non-empty array"
          /\ plan' = plan
     ELSE IF toMapByStep(opts.calibration) = <<>>
     THEN /\ pc' = "threw"
          /\ err' = "calibration produced no valid steps"
          /\ plan' = <<>>
     ELSE /\ pc' = "read0"
          /\ err' = err
          /\ plan' = toMapByStep(opts.calibration)
  /\ UNCHANGED <<env, locals, abt, snsr, kbd, tol, current, cycle, rows, tries,
                 aggEmpty, segs, act, pending, planOut, result, first>>

\* values the sensor may report when it is not exact
ReadOffsets == {0, 0 - MILLI, 2 * MILLI, 30 * MILLI, 0 - (ONE + 20 * MILLI)}
ReadVals == {opts.target + d : d \in ReadOffsets}

\* what follows "current = after" at each read
AfterRead(v) ==
  CASE pc = "read0" ->
         /\ tol' = TolOf(opts, v)
         /\ cycle' = 1
         /\ first' = v
         /\ pc' = "ppA"
         /\ UNCHANGED rows
    [] pc = "readA" ->
         /\ pc' = "ppB"
         /\ UNCHANGED <<tol, cycle, first, rows>>
    [] pc = "readB" ->
         \* rows.push; singleEntry is set, so the cycle does not break
         /\ rows' = rows + 1
         /\ cycle' = cycle + 1
         /\ pc' = "ppA"
         /\ UNCHANGED <<tol, first>>
    [] pc = "readM" ->
         /\ rows' = rows + 1
         /\ pc' = "main"
         /\ UNCHANGED <<tol, cycle, first>>
    [] pc = "readN" ->
         /\ rows' = rows + 1
         /\ pc' = "nudge"
         /\ UNCHANGED <<tol, cycle, first>>

\* a read whose value is dropped: the controller keeps its old current
readDropped ==
  /\ prog \in MoveToProgs
  /\ pc \in MoveReadPcs
  /\ \E v \in (IF sensor = "exact" THEN {axis} ELSE ReadVals) :
       /\ current' = IF pc = "read0" THEN v ELSE current
       /\ AfterRead(v)
  /\ afterFail' = (afterFail \/ failed)
  /\ UNCHANGED <<env, locals, abt, failed, down, ups, pressed, downAfterCancel, plan,
                 tries, aggEmpty, segs, act, pending, planOut, result, err>>

\* const v = await readCurrent(region); return Number(v)
read ==
  /\ prog \in MoveToProgs
  /\ pc \in MoveReadPcs
  /\ \E v \in (IF sensor = "exact" THEN {axis} ELSE ReadVals) :
       /\ current' = v
       /\ AfterRead(v)
  /\ afterFail' = (afterFail \/ failed)
  /\ UNCHANGED <<env, locals, abt, failed, down, ups, pressed, downAfterCancel, plan,
                 tries, aggEmpty, segs, act, pending, planOut, result, err>>

\* a read failure that is swallowed and retried instead of thrown
readThrowsRetried ==
  /\ prog \in {"moveTo", "batched"}
  /\ pc \in ReadPcs
  /\ sensor = "any"
  /\ failed' = TRUE
  /\ afterFail' = (afterFail \/ failed)
  /\ UNCHANGED <<env, locals, abt, down, ups, pressed, downAfterCancel, plan,
                 tol, current, cycle, rows, tries, aggEmpty, segs, act,
                 pending, planOut, result, first, pc, err>>

\* readCurrent throws `OCR failed on ...`: nothing in moveTo catches it
readThrows ==
  /\ prog \in {"moveTo", "batched"}
  /\ pc \in ReadPcs
  /\ sensor = "any"
  /\ failed' = TRUE
  /\ afterFail' = (afterFail \/ failed)
  /\ pc' = "threw"
  /\ err' = "OCR failed"
  /\ UNCHANGED <<env, locals, abt, down, ups, pressed, downAfterCancel, plan, tol,
                 current, cycle, rows, tries, aggEmpty, segs, act, pending,
                 planOut, result, first>>

\* phase A without the bound of the for loop on cycle
PrepassAUnbounded ==
  /\ pc = "ppA"
  /\ LET remainingA == opts.target - current
         absRemA    == Abs(remainingA)
         aggAll     == aggregateAllHeldKeys(absRemA, plan, tol)
     IN IF absRemA <= tol
        THEN /\ pc' = "main"
             /\ UNCHANGED <<aggEmpty, segs, act, planOut>>
        ELSE /\ planOut' = [by |-> "aggregateAllHeldKeys", absRem |-> absRemA,
                            tol |-> tol, covered |-> aggAll.covered,
                            segments |-> aggAll.segments]
             /\ IF ~aggAll.null /\ Len(aggAll.segments) > 0
                THEN /\ aggEmpty' = FALSE
                     /\ segs' = aggAll.segments
                     /\ act' = [NoAct EXCEPT !.dirKey = DirKeyFor(remainingA)]
                     /\ pc' = "A_seg"
                ELSE /\ aggEmpty' = TRUE
                     /\ pc' = "ppB"
                     /\ UNCHANGED <<segs, act>>
  /\ UNCHANGED <<env, locals, abt, snsr, kbd, plan, tol, current, cycle, rows, tries,
                 pending, result, err, first>>

\* pre-pass, phase A (lines 255-266)
PrepassA ==
  /\ pc = "ppA"
  /\ LET remainingA == opts.target - current
         absRemA    == Abs(remainingA)
         aggAll     == aggregateAllHeldKeys(absRemA, plan, tol)
     IN IF cycle > MAX_PREPASS_CYCLES \/ absRemA <= tol
        THEN /\ pc' = "main"
             /\ UNCHANGED <<aggEmpty, segs, act, planOut>>
        ELSE /\ planOut' = [by |-> "aggregateAllHeldKeys", absRem |-> absRemA,
                            tol |-> tol, covered |-> aggAll.covered,
                            segments |-> aggAll.segments]
             /\ IF ~aggAll.null /\ Len(aggAll.segments) > 0
                THEN /\ aggEmpty' = FALSE
                     /\ segs' = aggAll.segments
                     /\ act' = [NoAct EXCEPT !.dirKey = DirKeyFor(remainingA)]
                     /\ pc' = "A_seg"
                ELSE /\ aggEmpty' = TRUE
                     /\ pc' = "ppB"
                     /\ UNCHANGED <<segs, act>>
  /\ UNCHANGED <<env, locals, abt, snsr, kbd, plan, tol, current, cycle, rows, tries,
                 pending, result, err, first>>

\* for (const seg of aggAll.segments): next segment, or the read after the loop
SegNext ==
  /\ pc = "A_seg"
  /\ IF segs = <<>>
     THEN /\ pc' = "readA"
          /\ UNCHANGED <<segs, act>>
     ELSE /\ act' = SegAct(act.dirKey, Head(segs), "A_row")
          /\ segs' = Tail(segs)
          /\ pc' = "act_begin"
  /\ UNCHANGED <<env, locals, abt, snsr, kbd, plan, tol, current, cycle, rows, tries,
                 aggEmpty, pending, planOut, result, err, first>>

\* rows.push({... Phase: "AGG-ALL" ...}) after each segment
SegRow ==
  /\ pc = "A_row"
  /\ rows' = rows + 1
  /\ pc' = "A_seg"
  /\ UNCHANGED <<env, locals, abt, snsr, kbd, plan, tol, current, cycle, tries,
                 aggEmpty, segs, act, pending, planOut, result, err, first>>

\* pre-pass, phase B (lines 312-355)
PrepassB ==
  /\ pc = "ppB"
  /\ LET remainingB  == opts.target - current
         absRemB     == Abs(remainingB)
         hkB         == pickHeldKeyForRemaining(absRemB, plan)
         singleEntry == pickLargestStepWithinHK(absRemB, plan, hkB, tol)
     IN IF absRemB <= tol
        THEN /\ pc' = "main"
             /\ UNCHANGED <<act, cycle>>
        ELSE IF singleEntry # NoEntry
        THEN /\ act' = BatchAct(DirKeyFor(remainingB), singleEntry, 1, "readB")
             /\ pc' = "act_begin"
             /\ UNCHANGED cycle
        ELSE IF aggEmpty
        THEN /\ pc' = "main"
             /\ UNCHANGED <<act, cycle>>
        ELSE /\ cycle' = cycle + 1
             /\ pc' = "ppA"
             /\ UNCHANGED act
  /\ UNCHANGED <<env, locals, abt, snsr, kbd, plan, tol, current, rows, tries,
                 aggEmpty, segs, pending, planOut, result, err, first>>

\* the main loop falling back to the largest entry when nothing fits
MainLoopFallbackLargest ==
  /\ pc = "main"
  /\ LET remaining == opts.target - current
         absRem    == Abs(remaining)
         cap       == Max(0, absRem - tol)
         i         == FirstIdx(plan, LAMBDA p : p.step <= cap)
         chosen    == IF i # 0 THEN plan[i] ELSE plan[1]
         repeats   == Max(1, cap \div chosen.step)
     IN IF absRem > tol /\ rows < opts.maxSteps
        THEN /\ act' = BatchAct(DirKeyFor(remaining), chosen, repeats, "readM")
             /\ pc' = "act_begin"
        ELSE /\ pc' = "nudge"
             /\ UNCHANGED act
  /\ UNCHANGED <<env, locals, abt, snsr, kbd, plan, tol, current, cycle, rows,
                 tries, aggEmpty, segs, pending, planOut, result, err, first>>

\* the main loop without the tolerance test in its guard
MainLoopNoTolCheck ==
  /\ pc = "main"
  /\ LET remaining == opts.target - current
         absRem    == Abs(remaining)
         cap       == Max(0, absRem - tol)
         i         == FirstIdx(plan, LAMBDA p : p.step <= cap)
         chosen    == IF i # 0 THEN plan[i] ELSE plan[Len(plan)]
         repeats   == Max(1, cap \div chosen.step)
     IN IF rows < opts.maxSteps
        THEN /\ act' = BatchAct(DirKeyFor(remaining), chosen, repeats, "readM")
             /\ pc' = "act_begin"
        ELSE /\ pc' = "nudge"
             /\ UNCHANGED act
  /\ UNCHANGED <<env, locals, abt, snsr, kbd, plan, tol, current, cycle, rows,
                 tries, aggEmpty, segs, pending, planOut, result, err, first>>

\* main loop (lines 361-381)
MainLoop ==
  /\ pc = "main"
  /\ LET remaining == opts.target - current
         absRem    == Abs(remaining)
         cap       == Max(0, absRem - tol)
         i         == FirstIdx(plan, LAMBDA p : p.step <= cap)
         chosen    == IF i # 0 THEN plan[i] ELSE plan[Len(plan)]
         repeats   == Max(1, cap \div chosen.step)
     IN IF absRem > tol /\ rows < opts.maxSteps
        THEN /\ act' = BatchAct(DirKeyFor(remaining), chosen, repeats, "readM")
             /\ pc' = "act_begin"
        ELSE /\ pc' = "nudge"
             /\ UNCHANGED act
  /\ UNCHANGED <<env, locals, abt, snsr, kbd, plan, tol, current, cycle, rows, tries,
                 aggEmpty, segs, pending, planOut, result, err, first>>

\* the returned object with ok computed by a strict comparison
ReturnedStrictOk(cur) ==
  LET finalErr == opts.target - cur
  IN [ok     |-> (Abs(finalErr) < tol),
      reason |-> IF Abs(finalErr) <= tol THEN "ok" ELSE "max_steps",
      steps  |-> rows,
      final  |-> cur,
      error  |-> finalErr]

\* the object moveTo returns (lines 436-452)
Returned(cur) ==
  LET finalErr == opts.target - cur
  IN [ok     |-> (Abs(finalErr) <= tol),
      reason |-> IF Abs(finalErr) <= tol THEN "ok" ELSE "max_steps",
      steps  |-> rows,
      final  |-> cur,
      error  |-> finalErr]

\* the nudge loop allowing one nudge more than smallestMaxTries
NudgeLoopOneMore ==
  /\ pc = "nudge"
  /\ LET remaining == opts.target - current
         smallest  == plan[Len(plan)]
     IN IF Abs(remaining) > tol /\ tries <= opts.smallestMaxTries
        THEN /\ tries' = tries + 1
             /\ act' = BatchAct(DirKeyFor(remaining), smallest, 1, "readN")
             /\ pc' = "act_begin"
             /\ UNCHANGED result
        ELSE /\ result' = Returned(current)
             /\ pc' = "done"
             /\ UNCHANGED <<tries, act>>
  /\ UNCHANGED <<env, locals, abt, snsr, kbd, plan, tol, current, cycle, rows,
                 aggEmpty, segs, pending, planOut, err, first>>

\* smallest-step nudges (lines 406-413) and the return
NudgeLoop ==
  /\ pc = "nudge"
  /\ LET remaining == opts.target - current
         smallest  == plan[Len(plan)]
     IN IF Abs(remaining) > tol /\ tries < opts.smallestMaxTries
        THEN /\ tries' = tries + 1
             /\ act' = BatchAct(DirKeyFor(remaining), smallest, 1, "readN")
             /\ pc' = "act_begin"
             /\ UNCHANGED result
        ELSE /\ result' = Returned(current)
             /\ pc' = "done"
             /\ UNCHANGED <<tries, act>>
  /\ UNCHANGED <<env, locals, abt, snsr, kbd, plan, tol, current, cycle, rows,
                 aggEmpty, segs, pending, planOut, err, first>>

(***************************************************************************)
(* helpers/moveToTest.js, second part: the batched revision of moveTo      *)
(***************************************************************************)
MAX_REPEATS_PER_BATCH == 200

RECURSIVE DedupeFinite(_, _)
\* keeps the first record of each finite step (the `seen` set)
DedupeFinite(calib, seen) ==
  IF calib = <<>> THEN <<>>
  ELSE LET r == Head(calib)
       IN IF ~IsFinite(r.target) \/ r.target \in seen
          THEN DedupeFinite(Tail(calib), seen)
          ELSE <<[step    |-> r.target, ms |-> r.ms,
                  heldKey |-> IF r.heldKey = "undefined" THEN "-"
                              ELSE r.heldKey]>>
               \o DedupeFinite(Tail(calib), seen \cup {r.target})

toMapByStepBatched(calibArray) == SortDesc(DedupeFinite(calibArray, {}))

\* Math.max(absTol ?? 0, Math.abs(target) * (relPct ?? 0))
effectiveFinalTolerance(target, relPct, absTol) ==
  Max(absTol, (Abs(target) * relPct) \div PCT)

\* plan.find(p => absRem >= p.step) ?? smallest
chooseStep(absRem, pl) ==
  LET i == FirstIdx(pl, LAMBDA p : absRem >= p.step)
  IN IF i # 0 THEN pl[i] ELSE pl[Len(pl)]

nextStepOf(step, pl) ==
  LET idx == FirstIdx(pl, LAMBDA q : q.step = step)
  IN IF idx < Len(pl) THEN pl[idx + 1].step ELSE pl[Len(pl)].step

\* the repeats computed without the safety buffer
BatchRepeatsNoSafety(absRem, chosen, pl, tl) ==
  LET raw == IF chosen.step = 0 THEN 0 ELSE FloorDiv(absRem, chosen.step)
  IN Min(IF raw < 1 THEN 1 ELSE raw, MAX_REPEATS_PER_BATCH)

\* lines 478-485: the number of repeats of one batch; a division by a step of
\* 0 gives a non-finite number, which line 484 replaces by 1
BatchRepeats(absRem, chosen, pl, tl) ==
  LET smallest    == pl[Len(pl)]
      isSmallest  == chosen.step = smallest.step
      nextSmaller == IF isSmallest THEN smallest.step
                     ELSE nextStepOf(chosen.step, pl)
      safety      == IF isSmallest THEN Max(tl, smallest.step \div 2)
                     ELSE Max(nextSmaller \div 2, tl)
      raw         == IF chosen.step = 0 THEN 0
                     ELSE FloorDiv(absRem - safety, chosen.step)
  IN Min(IF raw < 1 THEN 1 ELSE raw, MAX_REPEATS_PER_BATCH)

\* the result with the error taken as reading minus target
BatchedReturnErrorFlipped(ok, reason, steps, cur) ==
  [ok |-> ok, reason |-> reason, steps |-> steps, final |-> cur,
   error |-> cur - opts.target]

\* the object the batched revision returns (lines 471, 515-526, 533)
BatchedReturn(ok, reason, steps, cur) ==
  [ok |-> ok, reason |-> reason, steps |-> steps, final |-> cur,
   error |-> opts.target - cur]

\* lines 431-440 and the call of read() at 463
BatchedStart ==
  /\ prog = "batched"
  /\ pc = "start"
  /\ IF Len(opts.calibration) = 0
     THEN /\ pc' = "threw"
          /\ err' = "moveTo: calibration array is required."
          /\ UNCHANGED <<plan, tol>>
     ELSE /\ plan' = toMapByStepBatched(opts.calibration)
          /\ tol' = effectiveFinalTolerance(opts.target, opts.relPct, opts.absTol)
          /\ pc' = "b_read0"
          /\ err' = err
  /\ UNCHANGED <<env, locals, abt, snsr, kbd, current, cycle, rows, tries,
                 aggEmpty, segs, act, pending, planOut, result, first>>

\* top of the for loop: budget, tolerance check, choice of the batch
BatchedLoop ==
  /\ prog = "batched"
  /\ pc = "b_loop"
  /\ LET remaining == opts.target - current
         absRem    == Abs(remaining)
         chosen    == chooseStep(absRem, plan)
         repeats   == BatchRepeats(absRem, chosen, plan, tol)
     IN IF locals.batch > opts.maxSteps
        THEN /\ result' = BatchedReturn(absRem <= tol, "max_steps", rows, current)
             /\ pc' = "done"
             /\ UNCHANGED <<act, locals>>
        ELSE IF absRem <= tol
        THEN /\ result' = BatchedReturn(TRUE, "within_tolerance",
                                        locals.batch - 1, current)
             /\ pc' = "done"
             /\ UNCHANGED <<act, locals>>
        ELSE /\ act' = BatchAct(DirKeyFor(remaining), chosen, repeats, "b_read")
             /\ locals' = [locals EXCEPT
                             !.isSmallest = (chosen.step = plan[Len(plan)].step),
                             !.repeats = repeats]
             /\ pc' = "act_begin"
             /\ UNCHANGED result
  /\ UNCHANGED <<env, abt, snsr, kbd, plan, tol, current, cycle, rows, tries,
                 aggEmpty, segs, pending, planOut, err, first>>

\* the reads of the batched revision and what follows them (lines 463, 490-528)
BatchedRead ==
  /\ prog = "batched"
  /\ pc \in {"b_read0", "b_read"}
  /\ \E v \in (IF sensor = "exact" THEN {axis} ELSE ReadVals) :
       /\ current' = v
       /\ IF pc = "b_read0"
          THEN /\ first' = v
               /\ locals' = [locals EXCEPT !.batch = 1]
               /\ pc' = "b_loop"
               /\ UNCHANGED <<rows, result>>
          ELSE LET st == IF locals.isSmallest
                         THEN locals.smallestTries + locals.repeats ELSE 0
               IN /\ rows' = rows + 1
                  /\ first' = first
                  /\ IF locals.isSmallest /\ st >= opts.smallestMaxTries
                     THEN /\ result' =
                               IF Abs(opts.target - v) <= tol
                               THEN BatchedReturn(TRUE, "within_tolerance",
                                                  locals.batch, v)
                               ELSE BatchedReturn(FALSE, "smallest_step_exhausted",
                                                  locals.batch, v)
                          /\ pc' = "done"
                          /\ locals' = [locals EXCEPT !.smallestTries = st]
                     ELSE /\ locals' = [locals EXCEPT !.smallestTries = st,
                                                      !.batch = @ + 1]
                          /\ pc' = "b_loop"
                          /\ UNCHANGED result
  /\ afterFail' = (afterFail \/ failed)
  /\ UNCHANGED <<env, abt, failed, down, ups, pressed, downAfterCancel, plan,
                 tol, cycle, tries, aggEmpty, segs, act, pending, planOut, err>>

(***************************************************************************)
(* cloneJob.js : its own abort, sleep, tap, and nudgeToTargetAxis          *)
(* (hold durations, i.e. the decaying speed, are not represented)          *)
(***************************************************************************)
CloneAwaitPcs == {"cj_read0", "cj_hold", "cj_settle", "cj_read"}

\* requestAbort(): ac.abort(), which rejects abortPromise; the process goes on
requestAbort ==
  /\ prog = "cloneJob"
  /\ pc \in CloneAwaitPcs
  /\ ~aborted
  /\ aborted' = TRUE
  /\ abortAt' = pc
  /\ UNCHANGED <<env, locals, snsr, kbd, pc, plan, tol, current, cycle, rows,
                 tries, aggEmpty, segs, act, pending, planOut, result, err,
                 first>>

\* the modifier of an iteration: TRIANGLE for iter <= 2, SQUARE from 3 on
CloneModifier(iter) == IF iter <= 2 THEN "TRIANGLE" ELSE "SQUARE"

\* let current = await readCurrent()  and  current = await readCurrent() in
\* the loop, followed by speed = ..., iter++
CloneRead ==
  /\ prog = "cloneJob"
  /\ pc \in {"start", "cj_read0", "cj_read"}
  /\ IF pc = "start"
     THEN /\ pc' = "cj_read0"
          /\ UNCHANGED <<current, first, locals, afterFail>>
     ELSE /\ \E v \in ReadVals :
               /\ current' = v
               /\ first' = IF pc = "cj_read0" THEN v ELSE first
          /\ locals' = IF pc = "cj_read" THEN [locals EXCEPT !.iter = @ + 1]
                       ELSE locals
          /\ afterFail' = (afterFail \/ failed)
          /\ pc' = "cj_loop"
  /\ UNCHANGED <<env, abt, failed, down, ups, pressed, downAfterCancel, plan,
                 tol, cycle, rows, tries, aggEmpty, segs, act, pending,
                 planOut, result, err>>

\* if (Number.isNaN(n)) throw new Error(`OCR failed on ...`)
CloneReadThrows ==
  /\ prog = "cloneJob"
  /\ pc \in {"cj_read0", "cj_read"}
  /\ failed' = TRUE
  /\ afterFail' = (afterFail \/ failed)
  /\ pc' = "threw"
  /\ err' = "OCR failed"
  /\ UNCHANGED <<env, locals, abt, down, ups, pressed, downAfterCancel, plan,
                 tol, current, cycle, rows, tries, aggEmpty, segs, act,
                 pending, planOut, result, first>>

\* while (iter < maxIters) { if within tolerance break; keyDownName(modifier)
\* after the loop: keyUpName("TRIANGLE"); keyUpName("SQUARE"); return current
CloneLoop ==
  /\ prog = "cloneJob"
  /\ pc = "cj_loop"
  /\ IF locals.iter < opts.maxIters /\ Abs(opts.target - current) > opts.tolerance
     THEN /\ keyDown(KeyOf(CloneModifier(locals.iter)))
          /\ pc' = "cj_move"
          /\ UNCHANGED result
     ELSE /\ down' = down \ {KeyOf("TRIANGLE"), KeyOf("SQUARE")}
          /\ ups' = [k \in RobotKeys |->
                       IF k \in {KeyOf("TRIANGLE"), KeyOf("SQUARE")}
                       THEN Min(ups[k] + 1, 3) ELSE ups[k]]
          /\ UNCHANGED <<pressed, downAfterCancel, afterFail>>
          /\ result' = [NoResult EXCEPT !.final = current]
          /\ pc' = "done"
  /\ UNCHANGED <<env, locals, abt, snsr, plan, tol, current, cycle, rows,
                 tries, aggEmpty, segs, act, pending, planOut, err, first>>

\* moveAxis: if (signal.aborted) throw; tapName(DPAD_RIGHT | DPAD_LEFT): the
\* key goes down and the hold sleep starts
moveAxis ==
  /\ prog = "cloneJob"
  /\ pc = "cj_move"
  /\ IF aborted
     THEN /\ pc' = "threw"
          /\ err' = "aborted"
          /\ UNCHANGED <<kbd, act>>
     ELSE IF opts.target > current
     THEN /\ act' = [NoAct EXCEPT !.dirKey = "DPAD_RIGHT"]
          /\ keyDown(KeyOf("DPAD_RIGHT"))
          /\ pc' = "cj_hold"
          /\ UNCHANGED err
     ELSE IF opts.target < current
     THEN /\ act' = [NoAct EXCEPT !.dirKey = "DPAD_LEFT"]
          /\ keyDown(KeyOf("DPAD_LEFT"))
          /\ pc' = "cj_hold"
          /\ UNCHANGED err
     ELSE /\ pc' = "cj_release"
          /\ UNCHANGED <<kbd, act, err>>
  /\ UNCHANGED <<env, locals, abt, snsr, plan, tol, current, cycle, rows,
                 tries, aggEmpty, segs, pending, planOut, result, first>>

\* sleep(ms) = Promise.race([timer, abortPromise]).  The hold ends: tap()'s
\* finally releases the key; after an abort the rejection leaves
\* nudgeToTargetAxis, which has no try/finally
CloneHoldEnds ==
  /\ prog = "cloneJob"
  /\ pc = "cj_hold"
  /\ keyUp(KeyOf(act.dirKey))
  /\ IF aborted
     THEN pc' = "threw" /\ err' = "aborted"
     ELSE pc' = "cj_release" /\ err' = err
  /\ UNCHANGED <<env, locals, abt, snsr, plan, tol, current, cycle, rows,
                 tries, aggEmpty, segs, act, pending, planOut, result, first>>

\* "Release modifiers after move", then await sleep(settleMs)
CloneRelease ==
  /\ prog = "cloneJob"
  /\ pc = "cj_release"
  /\ keyUp(KeyOf(CloneModifier(locals.iter)))
  /\ pc' = "cj_settle"
  /\ UNCHANGED <<env, locals, abt, snsr, plan, tol, current, cycle, rows,
                 tries, aggEmpty, segs, act, pending, planOut, result, err,
                 first>>

\* the settle sleep resolves, or rejects after an abort
CloneSettleEnds ==
  /\ prog = "cloneJob"
  /\ pc = "cj_settle"
  /\ IF aborted
     THEN pc' = "threw" /\ err' = "aborted"
     ELSE pc' = "cj_read" /\ err' = err
  /\ UNCHANGED <<env, locals, abt, snsr, kbd, plan, tol, current, cycle, rows,
                 tries, aggEmpty, segs, act, pending, planOut, result, first>>

\* the parameter fracTol of moveToTest / finishWithDecimals: the argument, or
\* the default 0.0005 when the caller gave none
FracTolParam(o) == IF "fracTol" \in o.given THEN o.fracTol ELSE MILLI \div 2

\* the parameter absTol: the argument, or undefined (not finite)
AbsTolParam(o) == IF "absTol" \in o.given THEN o.absTol ELSE NaN

\* Number.isFinite(fracTol) ? fracTol
\*   : (Number.isFinite(absTol) ? absTol : 0.0005)
FracTolOf(o) ==
  IF IsFinite(FracTolParam(o)) THEN FracTolParam(o)
  ELSE IF IsFinite(AbsTolParam(o)) THEN AbsTolParam(o)
  ELSE MILLI \div 2

(***************************************************************************)
(* helpers/moveToTest.js : moveToTest, moveToIntegerPart,                  *)
(* finishWithDecimals.  locals counts the sensor reads and the loop        *)
(* iterations that actuate, per run and within the decimal phase.          *)
(***************************************************************************)
\* const maxCycles = 8 of moveToIntegerPart
maxCycles == 8
\* maxIters = 200 of finishWithDecimals
maxIters == 200

\* target < 0 ? Math.ceil(target) : Math.floor(target)
TruncTowardZero(t) ==
  IF t < 0 THEN 0 - (((0 - t) \div ONE) * ONE) ELSE (t \div ONE) * ONE

TwoPhaseLocals == [phase |-> "whole", i |-> 0, reads |-> 0, cycles |-> 0,
                   fracReads |-> 0, fracCycles |-> 0]

\* lines 313-324: argument check, buildPlan, splitWholeVsDecimal
moveToTest ==
  /\ prog = "moveToTest"
  /\ pc = "start"
  /\ IF Len(opts.calibration) = 0
     THEN /\ pc' = "threw"
          /\ err' = "calibration (non-empty array) is required"
          /\ UNCHANGED <<plan, locals>>
     ELSE IF toMapByStep(opts.calibration) = <<>>
     THEN /\ pc' = "threw"
          /\ err' = "calibration produced no valid steps"
          /\ UNCHANGED <<plan, locals>>
     ELSE /\ plan' = toMapByStep(opts.calibration)
          /\ locals' = TwoPhaseLocals
          /\ pc' = "t_read0"
          /\ err' = err
  /\ UNCHANGED <<env, abt, snsr, kbd, tol, current, cycle, rows, tries,
                 aggEmpty, segs, act, pending, planOut, result, first>>

\* the decimal phase capturing once more before its first iteration
PhaseTwoEntryRereads == "t_readF"

\* lines 333-337: p2 = planFrac.length ? await finishWithDecimals({ target,
\* current, ... }) : { current, ok, tol }; finishWithDecimals starts with
\* let now = current
PhaseTwoEntry == "f_loop"

\* where moveToTest goes after the initial capture (lines 328-330)
PhaseOneEntry == IF splitWhole(plan) # <<>> THEN "w_loop" ELSE PhaseTwoEntry

\* now = Number(await readCurrent(region)) at lines 326, 154 and 201
TwoPhaseRead ==
  /\ prog = "moveToTest"
  /\ pc \in {"t_read0", "t_readW", "t_readF"}
  /\ \E v \in (IF sensor = "exact" THEN {axis} ELSE ReadVals) :
       /\ current' = v
       /\ first' = IF pc = "t_read0" THEN v ELSE first
  /\ afterFail' = (afterFail \/ failed)
  /\ pc' = CASE pc = "t_read0" -> PhaseOneEntry
             [] pc = "t_readW" -> "w_loop"
             [] pc = "t_readF" -> "f_loop"
  /\ locals' = CASE pc = "t_read0" ->
                      [locals EXCEPT !.reads = @ + 1,
                                     !.phase = IF PhaseOneEntry = "w_loop"
                                               THEN "whole" ELSE "frac"]
                 [] pc = "t_readW" ->
                      [locals EXCEPT !.reads = @ + 1, !.i = @ + 1]
                 [] pc = "t_readF" ->
                      [locals EXCEPT !.reads = @ + 1, !.fracReads = @ + 1,
                                     !.i = IF locals.phase = "frac"
                                           THEN @ + 1 ELSE 0,
                                     !.phase = "frac"]
  /\ UNCHANGED <<env, abt, failed, down, ups, pressed, downAfterCancel, plan,
                 tol, cycle, rows, tries, aggEmpty, segs, act, pending,
                 planOut, result, err>>

\* readCurrent throws: nothing in moveToTest catches it
TwoPhaseReadThrows ==
  /\ prog = "moveToTest"
  /\ pc \in {"t_read0", "t_readW", "t_readF"}
  /\ sensor = "any"
  /\ failed' = TRUE
  /\ afterFail' = (afterFail \/ failed)
  /\ pc' = "threw"
  /\ err' = "OCR failed"
  /\ UNCHANGED <<env, locals, abt, down, ups, pressed, downAfterCancel, plan,
                 tol, current, cycle, rows, tries, aggEmpty, segs, act,
                 pending, planOut, result, first>>

\* one iteration of the loop of moveToIntegerPart up to its first segment,
\* or the return to moveToTest, which goes on with phase 2
moveToIntegerPart ==
  /\ prog = "moveToTest"
  /\ pc = "w_loop"
  /\ LET targetInt == TruncTowardZero(opts.target)
         remaining == targetInt - current
         absCap    == Abs(remaining)
         dirKey    == IF remaining > 0 THEN opts.dirKeys.positive
                      ELSE opts.dirKeys.negative
         agg       == aggregateGreedy(absCap, splitWhole(plan), TRUE)
     IN IF locals.i >= maxCycles \/ absCap <= opts.wholeTol
           \/ agg.segments = <<>>
        THEN /\ pc' = PhaseTwoEntry
             /\ locals' = [locals EXCEPT !.phase = "frac", !.i = 0]
             /\ UNCHANGED <<segs, act>>
        ELSE /\ segs' = agg.segments
             /\ act' = [NoAct EXCEPT !.dirKey = dirKey]
             /\ locals' = [locals EXCEPT !.cycles = @ + 1]
             /\ pc' = "w_seg"
  /\ UNCHANGED <<env, abt, snsr, kbd, plan, tol, current, cycle, rows, tries,
                 aggEmpty, pending, planOut, result, err, first>>

\* one iteration of the loop of finishWithDecimals up to its first segment,
\* or its return and the return of moveToTest
finishWithDecimals ==
  /\ prog = "moveToTest"
  /\ pc = "f_loop"
  /\ LET planFrac  == splitFrac(plan)
         remaining == opts.target - current
         absCap    == Abs(remaining)
         dirKey    == IF remaining > 0 THEN opts.dirKeys.positive
                      ELSE opts.dirKeys.negative
         agg       == aggregateGreedy(absCap, planFrac, FALSE)
     IN IF planFrac = <<>> \/ locals.i >= maxIters \/ absCap <= FracTolOf(opts)
        THEN /\ result' = [NoResult EXCEPT !.ok = (absCap <= FracTolOf(opts)),
                                           !.final = current]
             /\ pc' = "done"
             /\ UNCHANGED <<segs, act, locals>>
        ELSE /\ IF agg.segments = <<>>
                THEN /\ segs' = <<>>
                     /\ act' = BatchAct(dirKey, planFrac[Len(planFrac)], 1,
                                        "f_seg")
                     /\ pc' = "act_begin"
                ELSE /\ segs' = agg.segments
                     /\ act' = [NoAct EXCEPT !.dirKey = dirKey]
                     /\ pc' = "f_seg"
             /\ locals' = [locals EXCEPT !.cycles = @ + 1,
                                         !.fracCycles = @ + 1]
             /\ UNCHANGED result
  /\ UNCHANGED <<env, abt, snsr, kbd, plan, tol, current, cycle, rows, tries,
                 aggEmpty, pending, planOut, err, first>>

\* for (const seg of agg.segments) await execSegment(...): the next segment,
\* or the single capture after the loop
TwoPhaseSegNext ==
  /\ prog = "moveToTest"
  /\ pc \in {"w_seg", "f_seg"}
  /\ IF segs = <<>>
     THEN /\ pc' = IF pc = "w_seg" THEN "t_readW" ELSE "t_readF"
          /\ UNCHANGED <<segs, act>>
     ELSE /\ act' = SegAct(act.dirKey, Head(segs), pc)
          /\ segs' = Tail(segs)
          /\ pc' = "act_begin"
  /\ UNCHANGED <<env, locals, abt, snsr, kbd, plan, tol, current, cycle, rows,
                 tries, aggEmpty, pending, planOut, result, err, first>>

(***************************************************************************)
(* The step planner on its own: the three call sites of the planners       *)
(***************************************************************************)
\* moveTo.js:261  aggregateAllHeldKeys(absRemA, plan, tol)
PlanAggregateAll ==
  /\ prog = "planner"
  /\ pc = "start"
  /\ LET pl  == toMapByStep(opts.calibration)
         agg == aggregateAllHeldKeys(opts.absRem, pl, opts.tol)
     IN /\ plan' = pl
        /\ planOut' = [by |-> "aggregateAllHeldKeys", absRem |-> opts.absRem,
                       tol |-> opts.tol, covered |-> agg.covered,
                       segments |-> agg.segments]
  /\ pc' = "planned"
  /\ UNCHANGED <<env, locals, abt, snsr, kbd, tol, current, cycle, rows, tries,
                 aggEmpty, segs, act, pending, result, err, first>>

\* moveToTest.js:183-189  finishWithDecimals: absCap = |target - now|,
\* break when absCap <= tol, else aggregateGreedy(absCap, planFrac)
PlanDecimals ==
  /\ prog = "planner"
  /\ pc = "start"
  /\ opts.absRem > opts.tol
  /\ LET pl  == toMapByStep(opts.calibration)
         agg == aggregateGreedy(opts.absRem, splitFrac(pl), FALSE)
     IN /\ plan' = pl
        /\ planOut' = [by |-> "finishWithDecimals", absRem |-> opts.absRem,
                       tol |-> opts.tol, covered |-> agg.covered,
                       segments |-> agg.segments]
  /\ pc' = "planned"
  /\ UNCHANGED <<env, locals, abt, snsr, kbd, tol, current, cycle, rows, tries,
                 aggEmpty, segs, act, pending, result, err, first>>

\* moveToTest.js:133-142  moveToIntegerPart: return when absCap <= wholeTol,
\* else aggregateGreedy(absCap, planWhole, { exact: true })
PlanWhole ==
  /\ prog = "planner"
  /\ pc = "start"
  /\ opts.absRem > opts.tol
  /\ LET pl  == toMapByStep(opts.calibration)
         agg == aggregateGreedy(opts.absRem, splitWhole(pl), TRUE)
     IN /\ plan' = pl
        /\ planOut' = [by |-> "moveToIntegerPart", absRem |-> opts.absRem,
                       tol |-> opts.tol, covered |-> agg.covered,
                       segments |-> agg.segments]
  /\ pc' = "planned"
  /\ UNCHANGED <<env, locals, abt, snsr, kbd, tol, current, cycle, rows, tries,
                 aggEmpty, segs, act, pending, result, err, first>>

\* aggregateGreedy(cap, subPlan, { exact }) called on a whole table
aggregateGreedyCall ==
  /\ prog = "aggregateGreedy"
  /\ pc = "start"
  /\ LET pl  == toMapByStep(opts.calibration)
         agg == aggregateGreedy(opts.cap, pl, opts.exact)
     IN /\ plan' = pl
        /\ planOut' = [by |-> "aggregateGreedy", absRem |-> opts.cap,
                       tol |-> 0, covered |-> agg.covered,
                       segments |-> agg.segments]
  /\ pc' = "planned"
  /\ UNCHANGED <<env, locals, abt, snsr, kbd, tol, current, cycle, rows, tries,
                 aggEmpty, segs, act, pending, result, err, first>>

(***************************************************************************)
(* Angles.  One degree is ONE; helpers/utils.js : to360From180,            *)
(* calibration.js : to360, cloneJob.js : normSigned and moveRotationSmart  *)
(***************************************************************************)
\* the % of JavaScript: the result has the sign of the dividend
JsMod(a, m) == IF a >= 0 THEN a % m ELSE 0 - ((0 - a) % m)

\* if (signedDeg < -180 || signedDeg > 180) throw new RangeError(...)
RangeErrorMsg == "RangeError: Input must be between -180 and 180"
InRange180(signedDeg) ==
  ~(signedDeg < 0 - 180 * ONE \/ signedDeg > 180 * ONE)

\* helpers/utils.js: the value returned when no RangeError is thrown
to360From180(signedDeg) ==
  IF signedDeg < 0 THEN 360 * ONE + signedDeg ELSE signedDeg

\* calibration.js: let t = signedDeg % 360; if (t < 0) t += 360
to360(signedDeg) ==
  LET t == JsMod(signedDeg, 360 * ONE)
  IN IF t < 0 THEN t + 360 * ONE ELSE t

\* Number(n), and the fallback when the result is not finite
toFinite(n, fallback) == IF IsFinite(n) THEN n ELSE fallback

\* the normalisation with 180 sent to -180
normSignedHalfOpenBelow(a) ==
  LET r == JsMod(JsMod(toFinite(a, 0), 360 * ONE) + 360 * ONE, 360 * ONE)
  IN IF r >= 180 * ONE THEN r - 360 * ONE ELSE r

\* r = ((a % 360) + 360) % 360; return r > 180 ? r - 360 : r
normSigned(a) ==
  LET r == JsMod(JsMod(toFinite(a, 0), 360 * ONE) + 360 * ONE, 360 * ONE)
  IN IF r > 180 * ONE THEN r - 360 * ONE ELSE r

\* the delta taken without normalisation
ShortestDeltaRaw(cur, tgt) == tgt - cur

\* let delta = normSigned(tgt - cur)
ShortestDelta(cur, tgt) == normSigned(tgt - cur)

\* (distance / speed) * 1000, rounded up to whole milliseconds
travelTimeMs(start, target, speed) ==
  LET ticksPerMs == (ONE \div 1000) * speed
  IN (Abs(target - start) + ticksPerMs - 1) \div ticksPerMs

\* moveRotationSmart treating only a delta near 0 as no movement
moveRotationSmartHalfTurns ==
  /\ prog = "moveRotationSmart"
  /\ pc = "start"
  /\ LET cur      == normSigned(toFinite(opts.current, 0))
         tgt      == normSigned(toFinite(opts.target, cur))
         spd      == toFinite(opts.speed, 0)
         delta    == ShortestDelta(cur, tgt)
         isZeroish == Abs(delta) < MILLI
         ttms     == IF ~isZeroish /\ spd > 0
                     THEN travelTimeMs(0, Abs(delta), spd) ELSE 0
     IN /\ locals' = [cur |-> cur, tgt |-> tgt, delta |-> delta, ttms |-> ttms]
        /\ IF isZeroish \/ ttms = 0
           THEN /\ pc' = "done"
                /\ UNCHANGED <<kbd, act>>
           ELSE /\ act' = [NoAct EXCEPT
                             !.dirKey = IF delta > 0 THEN "DPAD_RIGHT"
                                        ELSE "DPAD_LEFT",
                             !.msTotal = ttms]
                /\ keyDown(KeyOf(IF delta > 0 THEN "DPAD_RIGHT" ELSE "DPAD_LEFT"))
                /\ pc' = "mrs_hold"
  /\ UNCHANGED <<env, abt, snsr, plan, tol, current, cycle, rows, tries,
                 aggEmpty, segs, pending, planOut, result, err, first>>

\* moveRotationSmart(current, target, speed): sanitize, shortest delta, and
\* the key-down of tap() when there is something to rotate
moveRotationSmart ==
  /\ prog = "moveRotationSmart"
  /\ pc = "start"
  /\ LET cur      == normSigned(toFinite(opts.current, 0))
         tgt      == normSigned(toFinite(opts.target, cur))
         spd      == toFinite(opts.speed, 0)
         delta    == ShortestDelta(cur, tgt)
         isZeroish == Abs(delta) < MILLI \/ Abs(Abs(delta) - 180 * ONE) < MILLI
         ttms     == IF ~isZeroish /\ spd > 0
                     THEN travelTimeMs(0, Abs(delta), spd) ELSE 0
     IN /\ locals' = [cur |-> cur, tgt |-> tgt, delta |-> delta, ttms |-> ttms]
        /\ IF isZeroish \/ ttms = 0
           THEN /\ pc' = "done"
                /\ UNCHANGED <<kbd, act>>
           ELSE /\ act' = [NoAct EXCEPT
                             !.dirKey = IF delta > 0 THEN "DPAD_RIGHT"
                                        ELSE "DPAD_LEFT",
                             !.msTotal = ttms]
                /\ keyDown(KeyOf(IF delta > 0 THEN "DPAD_RIGHT" ELSE "DPAD_LEFT"))
                /\ pc' = "mrs_hold"
  /\ UNCHANGED <<env, abt, snsr, plan, tol, current, cycle, rows, tries,
                 aggEmpty, segs, pending, planOut, result, err, first>>

\* tap(): the hold sleep ends and the finally releases the key
RotationHoldEnds ==
  /\ prog = "moveRotationSmart"
  /\ pc = "mrs_hold"
  /\ keyUp(KeyOf(act.dirKey))
  /\ pc' = "done"
  /\ UNCHANGED <<env, locals, abt, snsr, plan, tol, current, cycle, rows,
                 tries, aggEmpty, segs, act, pending, planOut, result, err,
                 first>>

\* clone.js: const convertedTarget = to360From180(target), then moveTo with
\* target: convertedTarget
runPlacementROT ==
  /\ prog = "runPlacementROT"
  /\ pc = "rot"
  /\ IF InRange180(opts.targetSigned)
     THEN /\ opts' = [opts EXCEPT !.target = to360From180(opts.targetSigned)]
          /\ pc' = "start"
          /\ err' = err
     ELSE /\ pc' = "threw"
          /\ err' = RangeErrorMsg
          /\ opts' = opts
  /\ UNCHANGED <<prog, sensor, axis, locals, abt, snsr, kbd, plan, tol,
                 current, cycle, rows, tries, aggEmpty, segs, act, pending,
                 planOut, result, first>>

\* calibration.js: const target360 = to360(Number(targetSigned)), then moveTo
\* with target: target360 (the 3 s sleep before it is not represented)
runMoveRotation ==
  /\ prog = "runMoveRotation"
  /\ pc = "rot"
  /\ opts' = [opts EXCEPT !.target = to360(opts.targetSigned)]
  /\ pc' = "start"
  /\ UNCHANGED <<prog, sensor, axis, locals, abt, snsr, kbd, plan, tol,
                 current, cycle, rows, tries, aggEmpty, segs, act, pending,
                 planOut, result, err, first>>

(***************************************************************************)
(* calibration.js : tuneForTarget, tuneForTargetRotation.  A probe         *)
(* (measureOnce) reads, holds DPAD_RIGHT for ms inside the modifier        *)
(* bracket, and reads again; its measured delta is any of a few values     *)
(* around the target; locals.probes keeps every probe of the run.          *)
(***************************************************************************)
\* const MAX_SUB_ITERS = 30
MAX_SUB_ITERS == 30
\* const MIN_MS = 0
MIN_MS == 0
\* const MAX_MS = 1000
MAX_MS == 1000

TuneProgs == {"tuneForTarget", "tuneForTargetRotation"}

\* twice effectiveTolerance(target).eff, in ticks:
\* Math.max(CAL_ABS_TOL, Math.abs(target) * CAL_TOL_PCT) with
\* CAL_ABS_TOL = 0.000025 and CAL_TOL_PCT = 0.0005
effectiveTolerance2(target) == Max(5, Abs(target) \div 1000)

\* Math.round((low + high) / 2) for non-negative low and high
Midpoint(low, high) == (low + high + 1) \div 2

\* let d = (b - a) % 360; if (d < 0) d += 360, for the delta b - a
forwardDelta360(delta) ==
  LET d == JsMod(delta, 360 * ONE)
  IN IF d < 0 THEN d + 360 * ONE ELSE d

NoBest == [ms |-> 0 - 1, err |-> 0 - 1, iter |-> 0]

TuneLocals(target) ==
  [target |-> target, low |-> MIN_MS, high |-> MAX_MS,
   ms |-> Midpoint(MIN_MS, MAX_MS), i |-> 0, best |-> NoBest,
   probes |-> <<>>, diff |-> 0]

\* lines 114-121: currentResults = [], tolInfo, low, high, ms, best = null
tuneForTarget ==
  /\ prog = "tuneForTarget"
  /\ pc = "start"
  /\ locals' = TuneLocals(opts.target)
  /\ pc' = "tune_measure"
  /\ UNCHANGED <<env, abt, snsr, kbd, plan, tol, current, cycle, rows, tries,
                 aggEmpty, segs, act, pending, planOut, result, err, first>>

\* lines 214-222: the same with target360 = to360(targetSigned)
tuneForTargetRotation ==
  /\ prog = "tuneForTargetRotation"
  /\ pc = "start"
  /\ locals' = TuneLocals(to360(opts.target))
  /\ pc' = "tune_measure"
  /\ UNCHANGED <<env, abt, snsr, kbd, plan, tol, current, cycle, rows, tries,
                 aggEmpty, segs, act, pending, planOut, result, err, first>>

\* what a probe may measure: short of the target, beyond it, or on it
MeasuredDeltas(target) ==
  {target - effectiveTolerance2(target),
   target + 2 * effectiveTolerance2(target),
   target}

\* const HOLD_SQUARE_BELOW = 0.3, HOLD_TRIANGLE_ABOVE = 2.9
HOLD_SQUARE_BELOW == 300 * MILLI
HOLD_TRIANGLE_ABOVE == 2900 * MILLI
\* const HOLD_LEAD_MS = 0, HOLD_TAIL_MS = 0
HOLD_LEAD_MS == 0
HOLD_TAIL_MS == 0

\* chooseHoldKey(target), "-" for null
chooseHoldKey(target) ==
  IF target > HOLD_TRIANGLE_ABOVE THEN "TRIANGLE"
  ELSE IF target < HOLD_SQUARE_BELOW THEN "SQUARE"
  ELSE "-"

\* the press of a probe: DPAD_RIGHT for ms, inside the bracket of holdKey
ProbeAct(ms, target) ==
  [hold |-> chooseHoldKey(target), dirKey |-> "DPAD_RIGHT", msTotal |-> ms,
   dist |-> 0, ret |-> "tune_read"]

\* a probe whose second read is issued while DPAD_RIGHT is still down
measureOnceReadsWhileHeld ==
  /\ prog = "tuneForTarget"
  /\ pc = "tune_measure"
  /\ act' = ProbeAct(locals.ms, locals.target)
  /\ keyDown(KeyOf("DPAD_RIGHT"))
  /\ pc' = "tune_read"
  /\ UNCHANGED <<env, locals, abt, snsr, plan, tol, current, cycle, rows,
                 tries, aggEmpty, segs, pending, planOut, result, err, first>>

\* measureOnce(ms, target): xOriginalPos is read, then the press begins
measureOnce ==
  /\ prog = "tuneForTarget"
  /\ pc = "tune_measure"
  /\ act' = ProbeAct(locals.ms, locals.target)
  /\ pc' = "act_begin"
  /\ UNCHANGED <<env, locals, abt, snsr, kbd, plan, tol, current, cycle, rows,
                 tries, aggEmpty, segs, pending, planOut, result, err, first>>

\* measureOnceRotation(ms, target360): rotOrig is read, then the press begins
measureOnceRotation ==
  /\ prog = "tuneForTargetRotation"
  /\ pc = "tune_measure"
  /\ act' = ProbeAct(locals.ms, locals.target)
  /\ pc' = "act_begin"
  /\ UNCHANGED <<env, locals, abt, snsr, kbd, plan, tol, current, cycle, rows,
                 tries, aggEmpty, segs, pending, planOut, result, err, first>>

\* the second read of measureOnce: diff = xNewPosition - xOriginalPos
measureOnceDiff ==
  /\ prog = "tuneForTarget"
  /\ pc = "tune_read"
  /\ \E d \in MeasuredDeltas(locals.target) :
       locals' = [locals EXCEPT !.diff = d]
  /\ pc' = "tune_update"
  /\ UNCHANGED <<env, abt, snsr, kbd, plan, tol, current, cycle, rows, tries,
                 aggEmpty, segs, act, pending, planOut, result, err, first>>

\* the second read of measureOnceRotation:
\* diff = forwardDelta360(rotOrig, rotNew)
measureOnceRotationDiff ==
  /\ prog = "tuneForTargetRotation"
  /\ pc = "tune_read"
  /\ \E d \in MeasuredDeltas(locals.target) :
       locals' = [locals EXCEPT !.diff = forwardDelta360(d)]
  /\ pc' = "tune_update"
  /\ UNCHANGED <<env, abt, snsr, kbd, plan, tol, current, cycle, rows, tries,
                 aggEmpty, segs, act, pending, planOut, result, err, first>>

\* the best probe replaced also by a probe that only equals its error
BetterProbeOrEqual(e, best) == best = NoBest \/ e <= best.err

\* if (!best || err < best.err)
BetterProbe(e, best) == best = NoBest \/ e < best.err

\* the loop body without `if (next === ms) break`
TuneUpdateNoCollapse ==
  /\ prog \in TuneProgs
  /\ pc = "tune_update"
  /\ LET e     == Abs(locals.diff - locals.target)
         ok    == 2 * e <= effectiveTolerance2(locals.target)
         best  == IF BetterProbe(e, locals.best)
                  THEN [ms |-> locals.ms, err |-> e, iter |-> locals.i + 1]
                  ELSE locals.best
         high  == IF locals.diff > locals.target THEN locals.ms
                  ELSE locals.high
         low   == IF locals.diff > locals.target THEN locals.low
                  ELSE locals.ms
         next  == Midpoint(low, high)
         seen  == Append(locals.probes,
                         [ms |-> locals.ms, err |-> e,
                          over |-> locals.diff > locals.target])
         why   == IF ok THEN "tolerance"
                  ELSE IF locals.i + 1 >= opts.maxSubIters THEN "budget"
                  ELSE "-"
     IN IF why # "-"
        THEN /\ locals' = [locals EXCEPT !.best = best, !.probes = seen,
                             !.low = IF ok THEN @ ELSE low,
                             !.high = IF ok THEN @ ELSE high]
             /\ result' = [ok |-> ok, reason |-> why, steps |-> best.iter,
                           final |-> best.ms, error |-> best.err]
             /\ pc' = "done"
        ELSE /\ locals' = [locals EXCEPT !.best = best, !.probes = seen,
                             !.low = low, !.high = high, !.ms = next,
                             !.i = @ + 1]
             /\ pc' = "tune_measure"
             /\ UNCHANGED result
  /\ UNCHANGED <<env, abt, snsr, kbd, plan, tol, current, cycle, rows, tries,
                 aggEmpty, segs, act, pending, planOut, err, first>>

\* the loop body with the two bracket updates exchanged
TuneUpdateSwapped ==
  /\ prog \in TuneProgs
  /\ pc = "tune_update"
  /\ LET e     == Abs(locals.diff - locals.target)
         ok    == 2 * e <= effectiveTolerance2(locals.target)
         best  == IF BetterProbe(e, locals.best)
                  THEN [ms |-> locals.ms, err |-> e, iter |-> locals.i + 1]
                  ELSE locals.best
         high  == IF locals.diff > locals.target THEN locals.high
                  ELSE locals.ms
         low   == IF locals.diff > locals.target THEN locals.ms
                  ELSE locals.low
         next  == Midpoint(low, high)
         seen  == Append(locals.probes,
                         [ms |-> locals.ms, err |-> e,
                          over |-> locals.diff > locals.target])
         why   == IF ok THEN "tolerance"
                  ELSE IF next = locals.ms THEN "collapse"
                  ELSE IF locals.i + 1 >= opts.maxSubIters THEN "budget"
                  ELSE "-"
     IN IF why # "-"
        THEN /\ locals' = [locals EXCEPT !.best = best, !.probes = seen,
                             !.low = IF ok THEN @ ELSE low,
                             !.high = IF ok THEN @ ELSE high]
             /\ result' = [ok |-> ok, reason |-> why, steps |-> best.iter,
                           final |-> best.ms, error |-> best.err]
             /\ pc' = "done"
        ELSE /\ locals' = [locals EXCEPT !.best = best, !.probes = seen,
                             !.low = low, !.high = high, !.ms = next,
                             !.i = @ + 1]
             /\ pc' = "tune_measure"
             /\ UNCHANGED result
  /\ UNCHANGED <<env, abt, snsr, kbd, plan, tol, current, cycle, rows, tries,
                 aggEmpty, segs, act, pending, planOut, err, first>>

\* the rest of the loop body (lines 124-166 and 225-266) and, when the loop
\* ends, the push of best.ms to bestResultsPosition / bestResultsRotation
TuneUpdate ==
  /\ prog \in TuneProgs
  /\ pc = "tune_update"
  /\ LET e     == Abs(locals.diff - locals.target)
         ok    == 2 * e <= effectiveTolerance2(locals.target)
         best  == IF BetterProbe(e, locals.best)
                  THEN [ms |-> locals.ms, err |-> e, iter |-> locals.i + 1]
                  ELSE locals.best
         high  == IF locals.diff > locals.target THEN locals.ms
                  ELSE locals.high
         low   == IF locals.diff > locals.target THEN locals.low
                  ELSE locals.ms
         next  == Midpoint(low, high)
         seen  == Append(locals.probes,
                         [ms |-> locals.ms, err |-> e,
                          over |-> locals.diff > locals.target])
         why   == IF ok THEN "tolerance"
                  ELSE IF next = locals.ms THEN "collapse"
                  ELSE IF locals.i + 1 >= opts.maxSubIters THEN "budget"
                  ELSE "-"
     IN IF why # "-"
        THEN /\ locals' = [locals EXCEPT !.best = best, !.probes = seen,
                             !.low = IF ok THEN @ ELSE low,
                             !.high = IF ok THEN @ ELSE high]
             /\ result' = [ok |-> ok, reason |-> why, steps |-> best.iter,
                           final |-> best.ms, error |-> best.err]
             /\ pc' = "done"
        ELSE /\ locals' = [locals EXCEPT !.best = best, !.probes = seen,
                             !.low = low, !.high = high, !.ms = next,
                             !.i = @ + 1]
             /\ pc' = "tune_measure"
             /\ UNCHANGED result
  /\ UNCHANGED <<env, abt, snsr, kbd, plan, tol, current, cycle, rows, tries,
                 aggEmpty, segs, act, pending, planOut, err, first>>

(***************************************************************************)
(* unnamed/part_008 : calculateClosestPlanGrouped                          *)
(***************************************************************************)
\* "Normalize steps": stepInt > 0 && Number.isFinite(msEach), sorted by
\* descending stepInt (a NaN target gives a NaN stepInt, which is not > 0)
GroupedSteps(calibration) ==
  LET mapped == [i \in 1..Len(calibration) |->
                   [step    |-> calibration[i].target,
                    ms      |-> calibration[i].ms,
                    heldKey |-> IF calibration[i].heldKey = "undefined"
                                THEN "-" ELSE calibration[i].heldKey]]
  IN SortDesc(SelectSeq(mapped,
       LAMBDA q : IsFinite(q.step) /\ q.step > 0 /\ IsFinite(q.ms)))

RECURSIVE gcd(_, _)
gcd(a, b) == IF b = 0 THEN a ELSE gcd(b, a % b)

RECURSIVE StepGcd(_, _)
StepGcd(steps, g) ==
  IF steps = <<>> THEN g ELSE StepGcd(Tail(steps), gcd(g, Head(steps).step))

\* Math.round(a / b) for a >= 0, b > 0
RoundDiv(a, b) == (2 * a + b) \div (2 * b)

\* the "Greedy decomposition" loop: one pick per step with count > 0
RECURSIVE GreedyCounts(_, _)
GreedyCounts(steps, remainingInt) ==
  IF steps = <<>> \/ remainingInt <= 0 THEN <<>>
  ELSE LET st    == Head(steps)
           count == remainingInt \div st.step
       IN IF count > 0
          THEN <<[heldKey |-> st.heldKey, step |-> st.step,
                  repeats |-> count, msEach |-> st.ms]>>
               \o GreedyCounts(Tail(steps), remainingInt - count * st.step)
          ELSE GreedyCounts(Tail(steps), remainingInt)

\* groupsMap: one group per heldKey, in order of first use
RECURSIVE GroupByHeldKey(_, _)
GroupByHeldKey(picks, groups) ==
  IF picks = <<>> THEN groups
  ELSE LET pick == Head(picks)
           d    == [step |-> pick.step, repeats |-> pick.repeats,
                    msEach |-> pick.msEach]
           at   == {i \in 1..Len(groups) : groups[i].heldKey = pick.heldKey}
       IN IF at # {}
          THEN GroupByHeldKey(Tail(picks),
                 [groups EXCEPT ![CHOOSE i \in at : TRUE].detail = Append(@, d)])
          ELSE GroupByHeldKey(Tail(picks),
                 Append(groups, [heldKey |-> pick.heldKey, detail |-> <<d>>]))

RECURSIVE SumCountMs(_)
SumCountMs(detail) ==
  IF detail = <<>> THEN 0
  ELSE Head(detail).repeats * Head(detail).msEach + SumCountMs(Tail(detail))

RECURSIVE Pow10(_)
Pow10(n) == IF n = 0 THEN 1 ELSE 10 * Pow10(n - 1)

\* the number of decimals String(c.target) shows
Decimals(step) ==
  CHOOSE d \in 0..5 :
    /\ step % Pow10(5 - d) = 0
    /\ \A e \in 0..(d - 1) : step % Pow10(5 - e) # 0

\* 1 / scale, scale being 10 to the largest number of decimals of a step
ScaleUnit(calibration) ==
  LET ds          == {Decimals(calibration[i].target) :
                        i \in 1..Len(calibration)}
      maxDecimals == CHOOSE d \in ds : \A e \in ds : e <= d
  IN Pow10(5 - maxDecimals)

\* snappedInt: the target rounded to the scale and then to the nearest
\* multiple of the gcd of the scaled steps
SnappedInt(targetValue, calibration) ==
  LET steps     == GroupedSteps(calibration)
      unit      == ScaleUnit(calibration)
      stepGcd   == StepGcd(steps, steps[1].step) \div unit
      targetInt == RoundDiv(targetValue, unit)
  IN RoundDiv(targetInt, stepGcd) * stepGcd * unit

calculateClosestPlanGrouped ==
  /\ prog = "grouped"
  /\ pc = "start"
  /\ LET steps  == GroupedSteps(opts.calibration)
         groups == GroupByHeldKey(
                     GreedyCounts(steps, SnappedInt(opts.targetValue, opts.calibration)),
                     <<>>)
     IN IF ~IsFinite(opts.targetValue)
        THEN /\ pc' = "threw"
             /\ err' = "targetValue must be finite"
             /\ UNCHANGED <<plan, planOut>>
        ELSE IF Len(opts.calibration) = 0
        THEN /\ pc' = "threw"
             /\ err' = "calibration must be a non-empty array"
             /\ UNCHANGED <<plan, planOut>>
        ELSE IF steps = <<>>
        THEN /\ pc' = "threw"
             /\ err' = "No usable calibration steps."
             /\ UNCHANGED <<plan, planOut>>
        ELSE /\ pc' = "planned"
             /\ plan' = steps
             /\ planOut' =
                  [by       |-> "calculateClosestPlanGrouped",
                   absRem   |-> opts.targetValue,
                   tol      |-> 0,
                   covered  |-> SnappedInt(opts.targetValue, opts.calibration),
                   segments |->
                     [i \in 1..Len(groups) |->
                        [heldKey      |-> groups[i].heldKey,
                         detail       |-> groups[i].detail,
                         msTotal      |-> SumCountMs(groups[i].detail),
                         repeatsTotal |-> SumRepeats(groups[i].detail)]]]
             /\ err' = err
  /\ UNCHANGED <<env, locals, abt, snsr, kbd, tol, current, cycle, rows, tries,
                 aggEmpty, segs, act, pending, result, first>>

(***************************************************************************)
(* unnamed/part_008 : moveTo(target, calibration, region, opts), the       *)
(* simple variant: plan with calculateClosestPlanGrouped, execute, re-read *)
(***************************************************************************)
\* the groups calculateClosestPlanGrouped(diffAbs, calibration) returns
GroupedPlan(diffAbs, calibration) ==
  LET steps == GroupedSteps(calibration)
  IN GroupByHeldKey(GreedyCounts(steps, SnappedInt(diffAbs, calibration)), <<>>)

SimpleReturn(reached, attempts) ==
  [NoResult EXCEPT !.ok = reached, !.reason = "-", !.steps = attempts,
                   !.final = current, !.error = opts.target - current]

\* lines 31-40: the options and the first value of current
SimpleStart ==
  /\ prog = "simple"
  /\ pc = "start"
  /\ locals' = [NoLocals EXCEPT !.iter = 1]
  /\ IF IsFinite(opts.current)
     THEN current' = opts.current /\ pc' = "s_loop"
     ELSE current' = current /\ pc' = "s_read0"
  /\ UNCHANGED <<env, abt, snsr, kbd, plan, tol, cycle, rows, tries, aggEmpty,
                 segs, act, pending, planOut, result, err, first>>

\* top of the for loop (lines 42-61): budget, tolerance, plan, direction
SimpleLoop ==
  /\ prog = "simple"
  /\ pc = "s_loop"
  /\ LET diffSigned == opts.target - current
         diffAbs    == Abs(diffSigned)
     IN IF locals.iter > opts.maxLoops
        THEN /\ result' = SimpleReturn(FALSE, opts.maxLoops)
             /\ pc' = "done"
             /\ UNCHANGED <<segs, act, err, plan>>
        ELSE IF diffAbs <= opts.tol
        THEN /\ result' = SimpleReturn(TRUE, locals.iter)
             /\ pc' = "done"
             /\ UNCHANGED <<segs, act, err, plan>>
        ELSE IF Len(opts.calibration) = 0
        THEN /\ pc' = "threw"
             /\ err' = "calibration must be a non-empty array"
             /\ UNCHANGED <<segs, act, result, plan>>
        ELSE IF GroupedSteps(opts.calibration) = <<>>
        THEN /\ pc' = "threw"
             /\ err' = "No usable calibration steps."
             /\ UNCHANGED <<segs, act, result, plan>>
        ELSE /\ plan' = GroupedSteps(opts.calibration)
             /\ segs' = GroupedPlan(diffAbs, opts.calibration)
             /\ act' = [NoAct EXCEPT !.dirKey = IF diffSigned > 0
                                                THEN "DPAD_RIGHT"
                                                ELSE "DPAD_LEFT"]
             /\ pc' = "s_seg"
             /\ UNCHANGED <<result, err>>
  /\ UNCHANGED <<env, locals, abt, snsr, kbd, tol, current, cycle, rows,
                 tries, aggEmpty, pending, planOut, first>>

\* for (const entry of plan): keyDownName(hold), tapName(padDirection,
\* entry.groupMsTotal), keyUpName(hold); after the loop the re-read
SimpleSegNext ==
  /\ prog = "simple"
  /\ pc = "s_seg"
  /\ IF segs = <<>>
     THEN /\ pc' = "s_read"
          /\ UNCHANGED <<segs, act>>
     ELSE /\ act' = [hold    |-> Head(segs).heldKey,
                     dirKey  |-> act.dirKey,
                     msTotal |-> SumCountMs(Head(segs).detail),
                     dist    |-> SumDist(Head(segs).detail),
                     ret     |-> "s_seg"]
          /\ segs' = Tail(segs)
          /\ pc' = "act_begin"
  /\ UNCHANGED <<env, locals, abt, snsr, kbd, plan, tol, current, cycle, rows,
                 tries, aggEmpty, pending, planOut, result, err, first>>

\* readNum() at lines 40 and 78, and the check after the pass (lines 82-85)
SimpleRead ==
  /\ prog = "simple"
  /\ pc \in {"s_read0", "s_read"}
  /\ \E v \in (IF sensor = "exact" THEN {axis} ELSE ReadVals) :
       /\ current' = v
       /\ first' = IF pc = "s_read0" THEN v ELSE first
       /\ IF pc = "s_read" /\ Abs(opts.target - v) <= opts.tol
          THEN /\ result' = [SimpleReturn(TRUE, locals.iter)
                               EXCEPT !.final = v, !.error = opts.target - v]
               /\ pc' = "done"
               /\ UNCHANGED locals
          ELSE /\ locals' = IF pc = "s_read"
                            THEN [locals EXCEPT !.iter = @ + 1] ELSE locals
               /\ pc' = "s_loop"
               /\ UNCHANGED result
  /\ afterFail' = (afterFail \/ failed)
  /\ UNCHANGED <<env, abt, failed, down, ups, pressed, downAfterCancel, plan,
                 tol, cycle, rows, tries, aggEmpty, segs, act, pending,
                 planOut, err>>

\* readCurrent throws: nothing in the simple variant catches it
SimpleReadThrows ==
  /\ prog = "simple"
  /\ pc \in {"s_read0", "s_read"}
  /\ sensor = "any"
  /\ failed' = TRUE
  /\ afterFail' = (afterFail \/ failed)
  /\ pc' = "threw"
  /\ err' = "OCR failed"
  /\ UNCHANGED <<env, locals, abt, down, ups, pressed, downAfterCancel, plan,
                 tol, current, cycle, rows, tries, aggEmpty, segs, act,
                 pending, planOut, result, first>>

(***************************************************************************)
(* Inputs                                                                  *)
(***************************************************************************)
Cal(t, ms, hk) == [target |-> t, ms |-> ms, heldKey |-> hk]

\* the table of scenario 1: records without a heldKey field
TableScenario1 ==
  << Cal(10 * ONE, 100, "undefined"), Cal(ONE, 20, "undefined"),
     Cal(100 * MILLI, 5, "undefined") >>
\* unsorted, with modifiers, and with a step of 0.001 without modifier
TableFine ==
  << Cal(MILLI, 3, "-"), Cal(ONE, 40, "TRIANGLE"), Cal(10 * MILLI, 6, "SQUARE"),
     Cal(100 * MILLI, 12, "-") >>
\* only steps >= 1
TableWhole == << Cal(ONE, 40, "TRIANGLE"), Cal(5 * ONE, 90, "-") >>
\* no step below 0.01, one modifier on two non-adjacent steps
TableCoarse ==
  << Cal(ONE, 40, "SQUARE"), Cal(100 * MILLI, 12, "-"),
     Cal(10 * MILLI, 6, "SQUARE") >>
\* every record invalid
TableInvalid == << Cal(NaN, 5, "-"), Cal(0, 5, "-"), Cal(ONE, 0, "-"),
                   Cal(ONE, NaN, "SQUARE") >>
TableEmpty == << >>
\* steps that are not whole numbers: 1.1, and 2.2 with 1.1
TableTenths == << Cal(1100 * MILLI, 44, "TRIANGLE") >>
TableTenthsTwo ==
  << Cal(2200 * MILLI, 80, "TRIANGLE"), Cal(1100 * MILLI, 44, "-") >>
\* two steps neither of which is a multiple of the other
TableGap == << Cal(600 * MILLI, 30, "-"), Cal(400 * MILLI, 20, "SQUARE") >>
\* valid and invalid records mixed, unsorted, one step given twice
TableMixed ==
  << Cal(10 * MILLI, 6, "SQUARE"), Cal(NaN, 5, "-"), Cal(ONE, 40, "TRIANGLE"),
     Cal(0, 5, "-"), Cal(100 * MILLI, 0, "-"), Cal(ONE, 20, "-"),
     Cal(0 - ONE, 5, "-"), Cal(5 * ONE, 90, "undefined") >>

DEFAULT_DIR_KEYS == [positive |-> "DPAD_RIGHT", negative |-> "DPAD_LEFT"]
\* a direction mapping naming a button PS_MAP does not have
BadDirKeys == [positive |-> "STICK_RIGHT", negative |-> "DPAD_LEFT"]

\* largest maxSteps tried with an arbitrary sensor
MaxStepsOpt == 2
\* largest smallestMaxTries tried with an arbitrary sensor
MaxTriesOpt == 2
\* planner inputs: absRem = k * 37 * MILLI, k <= MaxPlanRem
MaxPlanRem == 40

MoveOpts(target, cal, dk, absTol, relPct, maxSteps, maxTries, lead, tail) ==
  [target |-> target, calibration |-> cal, dirKeys |-> dk, absTol |-> absTol,
   relPct |-> relPct, maxSteps |-> maxSteps, smallestMaxTries |-> maxTries,
   lead |-> lead, tail |-> tail]

Scenario1Opts ==
  MoveOpts(23400 * MILLI, TableScenario1, DEFAULT_DIR_KEYS, 50 * MILLI, 0,
           200, 50, 30, 10)

\* runs against an exact actuator
ExactRuns ==
  { [opts |-> MoveOpts(t, cal, dk, tl[1], tl[2], b[1], b[2], ld[1], ld[2]),
     axis |-> a] :
      t   \in {1234 * MILLI, 0, 0 - 2500 * MILLI},
      cal \in {TableFine, TableScenario1, TableWhole, TableCoarse},
      dk  \in {DEFAULT_DIR_KEYS, BadDirKeys},
      tl  \in {<<MILLI, 0>>, <<0, 0>>, <<0, PCT>>},
      b   \in {<<MaxStepsOpt, MaxTriesOpt>>, <<0, 0>>},
      ld  \in {<<30, 10>>, <<0, 0>>},
      a   \in {0, 1234 * MILLI, 7005 * MILLI} }
  \cup {[opts |-> Scenario1Opts, axis |-> 0]}

\* runs against a sensor that may report anything, or fail
AnyRuns ==
  { MoveOpts(1234 * MILLI, cal, DEFAULT_DIR_KEYS, MILLI, 0, b[1], b[2], 30, 10) :
      cal \in {TableFine, TableWhole, TableInvalid, TableEmpty, TableMixed},
      b   \in {<<MaxStepsOpt, MaxTriesOpt>>, <<0, 1>>} }

\* runs of the batched revision
BatchedExactRuns ==
  { [opts |-> MoveOpts(t, cal, DEFAULT_DIR_KEYS, tl[1], tl[2], b[1], b[2], 30, 10),
     axis |-> a] :
      t   \in {1234 * MILLI, 0 - 2500 * MILLI},
      cal \in {TableFine, TableScenario1, TableWhole, TableCoarse},
      tl  \in {<<MILLI, 0>>, <<0, 0>>, <<0, 1>>},
      b   \in {<<200, 50>>, <<MaxStepsOpt, MaxTriesOpt>>, <<MaxStepsOpt, 300>>},
      a   \in {0, 1234 * MILLI, 7005 * MILLI} }

BatchedAnyRuns ==
  { MoveOpts(1234 * MILLI, cal, DEFAULT_DIR_KEYS, MILLI, 0, b[1], b[2], 30, 10) :
      cal \in {TableFine, TableWhole, TableInvalid, TableEmpty, TableMixed},
      b   \in {<<MaxStepsOpt, MaxTriesOpt>>, <<MaxStepsOpt, 300>>} }

\* largest maxIters of nudgeToTargetAxis tried
MaxItersOpt == 4

\* runs of cloneJob's nudgeToTargetAxis
CloneRuns ==
  { [target |-> 1234 * MILLI, tolerance |-> tl, maxIters |-> mi] :
      tl \in {MILLI, 3 * MILLI}, mi \in {1, MaxItersOpt} }

PlannerInputs ==
  { [absRem |-> k * 37 * MILLI, tol |-> tl, calibration |-> cal] :
      k   \in 1..MaxPlanRem,
      tl  \in {0, MILLI \div 2, MILLI, 50 * MILLI, 2000 * MILLI},
      cal \in {TableFine, TableScenario1, TableWhole, TableCoarse} }

\* largest cap of a call of aggregateGreedy tried, in units of 0.55
MaxGreedyCap == 12

\* calls of aggregateGreedy(cap, subPlan, { exact })
GreedyInputs ==
  { [cap |-> k * 550 * MILLI, calibration |-> cal, exact |-> e] :
      k   \in 1..MaxGreedyCap,
      cal \in {TableTenths, TableTenthsTwo, TableWhole},
      e   \in BOOLEAN }

\* calls of calculateClosestPlanGrouped(targetValue, calibration)
GroupedInputs ==
  { [targetValue |-> t, calibration |-> cal] :
      t   \in {k * 37 * MILLI : k \in 0..MaxPlanRem}
                \cup {800 * MILLI, NaN},
      cal \in {TableFine, TableCoarse, TableMixed, TableInvalid, TableEmpty,
               TableGap} }

\* a call of moveToTest that gives neither fracTol nor absTol: given is the
\* set of tolerance arguments the caller supplies
TwoPhaseOpts(target, cal, lead, tail) ==
  [target |-> target, calibration |-> cal, dirKeys |-> DEFAULT_DIR_KEYS,
   wholeTol |-> 490 * MILLI, fracTol |-> NaN, absTol |-> NaN, given |-> {},
   lead |-> lead, tail |-> tail]

\* CAL_ABS_TOL = 0.000025 of calibration.js: on displayed values that are
\* multiples of 0.00001 a difference is within it when it is at most 0.00002
CAL_ABS_TOL == 2

\* calls that supply absTol, with and without fracTol
TwoPhaseTolRuns ==
  { [opts |-> [TwoPhaseOpts(t, cal, 20, 10) EXCEPT
                 !.absTol = tols.absTol, !.fracTol = tols.fracTol,
                 !.given = tols.given],
     axis |-> 0] :
      t    \in {1234 * MILLI, 1236 * MILLI},
      cal  \in {TableFine, TableCoarse},
      tols \in { [absTol |-> CAL_ABS_TOL, fracTol |-> NaN,
                  given |-> {"absTol"}],
                 [absTol |-> 5 * MILLI, fracTol |-> NaN,
                  given |-> {"absTol"}],
                 [absTol |-> 5 * MILLI, fracTol |-> NaN,
                  given |-> {"absTol", "fracTol"}],
                 [absTol |-> 5 * MILLI, fracTol |-> 2 * MILLI,
                  given |-> {"absTol", "fracTol"}] } }

\* two-phase runs against an exact actuator
TwoPhaseExactRuns ==
  { [opts |-> TwoPhaseOpts(t, cal, 20, 10), axis |-> a] :
      t   \in {1234 * MILLI, 0 - 2500 * MILLI, 3 * ONE, 400 * MILLI},
      cal \in {TableFine, TableWhole, TableCoarse, TableScenario1,
               TableInvalid, TableEmpty},
      a   \in {0, 1234 * MILLI, 7005 * MILLI} }

\* two-phase runs against a sensor that may report anything, or fail
TwoPhaseAnyRuns ==
  { TwoPhaseOpts(1234 * MILLI, TableFine, 20, 10),
    TwoPhaseOpts(0 - 2500 * MILLI, TableWhole, 20, 10) }

\* largest maxLoops of the simple variant tried
MaxLoopsOpt == 3

SimpleOpts(target, cal, tl, maxLoops, cur) ==
  [target |-> target, calibration |-> cal, tol |-> tl, maxLoops |-> maxLoops,
   current |-> cur, dirKeys |-> DEFAULT_DIR_KEYS, lead |-> 0, tail |-> 0]

\* runs of the simple variant against an exact actuator
SimpleExactRuns ==
  { [opts |-> SimpleOpts(t, cal, tl, MaxLoopsOpt, c), axis |-> a] :
      t   \in {1234 * MILLI, 500 * MILLI, 0 - 2500 * MILLI},
      cal \in {TableFine, TableWhole, TableCoarse, TableMixed, TableInvalid,
               TableEmpty},
      tl  \in {0, MILLI},
      c   \in {NaN, 400 * MILLI},
      a   \in {0, 100 * MILLI, 7005 * MILLI} }

\* runs of the simple variant against a sensor that may report anything
SimpleAnyRuns ==
  { SimpleOpts(1234 * MILLI, cal, 0, n, NaN) :
      cal \in {TableFine, TableWhole}, n \in {0, MaxLoopsOpt} }

\* a small iteration budget, tried next to MAX_SUB_ITERS
SmallBudget == 3

\* tuning runs: the step to calibrate and the iteration budget
TuneInputs ==
  { [target |-> t, maxSubIters |-> n, lead |-> HOLD_LEAD_MS,
     tail |-> HOLD_TAIL_MS] :
      t \in {2 * ONE, 5 * ONE, MILLI, 0 - 90 * ONE},
      n \in {MAX_SUB_ITERS, SmallBudget} }

\* signed rotation targets, in degrees and fractions of a degree
SignedTargets ==
  {0 - 540 * ONE, 0 - 181 * ONE, 0 - 180 * ONE - 1, 0 - 180 * ONE,
   0 - 90500 * MILLI, 0 - 90 * ONE, 0 - MILLI, 0, 10 * ONE, 180 * ONE,
   180 * ONE + 1, 200 * ONE, 360 * ONE, 725 * ONE}

\* rotational moves: the displayed rotation is in [0, 360)
RotRuns ==
  { [opts |-> MoveOpts(s, TableWhole, DEFAULT_DIR_KEYS, MILLI, 0,
                       MaxStepsOpt, MaxTriesOpt, 30, 10)
                @@ [targetSigned |-> s],
     axis |-> a] :
      s \in SignedTargets,
      a \in {0, 10 * ONE, 350 * ONE, 100 * ONE} }

\* calls of moveRotationSmart(current, target, speed)
SmartAngles ==
  {NaN, 0 - 540 * ONE, 0 - 180 * ONE, 0 - 170 * ONE, 0 - MILLI \div 2, 0,
   10 * ONE, 90250 * MILLI, 170 * ONE, 180 * ONE, 180 * ONE + 1, 350 * ONE,
   360 * ONE, 725 * ONE}
SmartInputs ==
  { [current |-> c, target |-> t, speed |-> sp] :
      c \in SmartAngles, t \in SmartAngles, sp \in {NaN, 0, 30} }

InitLocals ==
  /\ pc = IF prog \in RotProgs THEN "rot" ELSE "start"
  /\ plan = <<>> /\ tol = 0 /\ current = NaN /\ cycle = 0 /\ rows = 0
  /\ tries = 0 /\ aggEmpty = FALSE /\ segs = <<>> /\ act = NoAct
  /\ pending = ""
  /\ down = {} /\ ups = [k \in RobotKeys |-> 0]
  /\ aborted = FALSE /\ abortAt = ""
  /\ failed = FALSE /\ pressed = FALSE /\ downAfterCancel = FALSE
  /\ afterFail = FALSE /\ first = NaN
  /\ planOut = NoPlanOut /\ result = NoResult /\ err = ""
  /\ locals = NoLocals

Init ==
  /\ \/ /\ prog = "moveTo" /\ sensor = "exact"
        /\ \E r \in ExactRuns : opts = r.opts /\ axis = r.axis
     \/ /\ prog = "moveTo" /\ sensor = "any" /\ axis = 0
        /\ opts \in AnyRuns
     \/ /\ prog = "batched" /\ sensor = "exact"
        /\ \E r \in BatchedExactRuns : opts = r.opts /\ axis = r.axis
     \/ /\ prog = "batched" /\ sensor = "any" /\ axis = 0
        /\ opts \in BatchedAnyRuns
     \/ /\ prog = "cloneJob" /\ sensor = "any" /\ axis = 0
        /\ opts \in CloneRuns
     \/ /\ prog = "planner" /\ sensor = "exact" /\ axis = 0
        /\ opts \in PlannerInputs
     \/ /\ prog = "aggregateGreedy" /\ sensor = "exact" /\ axis = 0
        /\ opts \in GreedyInputs
     \/ /\ prog = "grouped" /\ sensor = "exact" /\ axis = 0
        /\ opts \in GroupedInputs
     \/ /\ prog \in RotProgs /\ sensor = "exact"
        /\ \E r \in RotRuns : opts = r.opts /\ axis = r.axis
     \/ /\ prog = "moveRotationSmart" /\ sensor = "exact" /\ axis = 0
        /\ opts \in SmartInputs
     \/ /\ prog = "simple" /\ sensor = "exact"
        /\ \E r \in SimpleExactRuns : opts = r.opts /\ axis = r.axis
     \/ /\ prog = "simple" /\ sensor = "any" /\ axis = 0
        /\ opts \in SimpleAnyRuns
     \/ /\ prog \in TuneProgs /\ sensor = "any" /\ axis = 0
        /\ opts \in TuneInputs
     \/ /\ prog = "moveToTest" /\ sensor = "exact"
        /\ \E r \in TwoPhaseExactRuns \cup TwoPhaseTolRuns :
              opts = r.opts /\ axis = r.axis
     \/ /\ prog = "moveToTest" /\ sensor = "any" /\ axis = 0
        /\ opts \in TwoPhaseAnyRuns
  /\ InitLocals

Next ==
  \/ Start \/ read \/ readThrows
  \/ PrepassA \/ SegNext \/ SegRow \/ PrepassB \/ MainLoop \/ NudgeLoop
  \/ ActBegin \/ SleepLeadDone \/ tapName \/ SleepHoldDone \/ SleepTailDone
  \/ ReleaseHold
  \/ _abort
  \/ BatchedStart \/ BatchedLoop \/ BatchedRead
  \/ requestAbort \/ CloneRead \/ CloneReadThrows \/ CloneLoop \/ moveAxis
  \/ CloneHoldEnds \/ CloneRelease \/ CloneSettleEnds
  \/ PlanAggregateAll \/ PlanDecimals \/ PlanWhole \/ aggregateGreedyCall
  \/ calculateClosestPlanGrouped
  \/ moveRotationSmart \/ RotationHoldEnds
  \/ runPlacementROT \/ runMoveRotation
  \/ moveToTest \/ TwoPhaseRead \/ TwoPhaseReadThrows \/ moveToIntegerPart
  \/ finishWithDecimals \/ TwoPhaseSegNext
  \/ tuneForTarget \/ tuneForTargetRotation \/ measureOnce
  \/ measureOnceRotation \/ measureOnceDiff \/ measureOnceRotationDiff
  \/ TuneUpdate
  \/ SimpleStart \/ SimpleLoop \/ SimpleSegNext \/ SimpleRead
  \/ SimpleReadThrows

Spec == Init /\ [][Next]_vars

(***************************************************************************)
(* Runs that are never cancelled: every enabled step is eventually taken   *)
(* (the event loop runs each timer and continuation that is due).          *)
(***************************************************************************)
Run ==
  \/ Start \/ read \/ readThrows
  \/ PrepassA \/ SegNext \/ SegRow \/ PrepassB \/ MainLoop \/ NudgeLoop
  \/ ActBegin \/ SleepLeadDone \/ tapName \/ SleepHoldDone \/ SleepTailDone
  \/ ReleaseHold
  \/ BatchedStart \/ BatchedLoop \/ BatchedRead
  \/ CloneRead \/ CloneReadThrows \/ CloneLoop \/ moveAxis
  \/ CloneHoldEnds \/ CloneRelease \/ CloneSettleEnds
  \/ PlanAggregateAll \/ PlanDecimals \/ PlanWhole \/ aggregateGreedyCall
  \/ calculateClosestPlanGrouped
  \/ moveRotationSmart \/ RotationHoldEnds
  \/ runPlacementROT \/ runMoveRotation
  \/ moveToTest \/ TwoPhaseRead \/ TwoPhaseReadThrows \/ moveToIntegerPart
  \/ finishWithDecimals \/ TwoPhaseSegNext
  \/ tuneForTarget \/ tuneForTargetRotation \/ measureOnce
  \/ measureOnceRotation \/ measureOnceDiff \/ measureOnceRotationDiff
  \/ TuneUpdate
  \/ SimpleStart \/ SimpleLoop \/ SimpleSegNext \/ SimpleRead
  \/ SimpleReadThrows

FinalPcs == {"done", "threw", "planned", AbortExit}

Pcs ==
  {"start", "read0", "ppA", "A_seg", "A_row", "ppB", "main", "nudge",
   "readA", "readB", "readM", "readN", "act_begin", "sleep_lead", "tap",
   "sleep_hold", "sleep_tail", "release_hold", "b_read0", "b_loop", "b_read",
   "cj_read0", "cj_loop", "cj_move", "cj_hold", "cj_release", "cj_settle",
   "cj_read", "rot", "mrs_hold", "t_read0", "t_readW",
   "t_readF", "w_loop", "f_loop", "w_seg", "f_seg",
   "tune_measure", "tune_read", "tune_update", "s_read0", "s_read", "s_loop",
   "s_seg"} \cup FinalPcs

\* a function that has not returned, thrown or exited moves on to its next
\* position: every step of Run leaves its position, and some step of Run is
\* enabled at every position outside FinalPcs
Advance == pc \notin FinalPcs /\ pc' \in Pcs

LiveSpec == Init /\ [][Run]_vars /\ WF_pc(Advance)

(***************************************************************************)
(* Properties                                                              *)
(***************************************************************************)
RECURSIVE PlanTotal(_)
PlanTotal(segments) ==
  IF segments = <<>> THEN 0
  ELSE SumDist(Head(segments).detail) + PlanTotal(Tail(segments))

\* C1 (as stated): every plan returned by a step planner moves at most
\* absRemaining - tol in total (sum of step * repeats over all segments).
C1_PlanWithinMargin ==
  planOut.segments # <<>> =>
    PlanTotal(planOut.segments) <= planOut.absRem - planOut.tol

\* C1 (amended): a plan of aggregateAllHeldKeys moves at most
\* absRemaining - tol; a plan the two-phase planners (moveToIntegerPart,
\* finishWithDecimals) obtain from aggregateGreedy moves at most absRemaining,
\* the tolerance not being subtracted from its cap.
C1_PlanBounds ==
  (/\ planOut.segments # <<>>
   /\ planOut.by \in {"aggregateAllHeldKeys", "moveToIntegerPart",
                       "finishWithDecimals"}) =>
    /\ PlanTotal(planOut.segments) = planOut.covered
    /\ PlanTotal(planOut.segments) > 0
    /\ (planOut.by = "aggregateAllHeldKeys" =>
          PlanTotal(planOut.segments) <= planOut.absRem - planOut.tol)
    /\ (planOut.by \in {"moveToIntegerPart", "finishWithDecimals"} =>
          PlanTotal(planOut.segments) <= planOut.absRem)

C1_Witness ==
  /\ planOut.by = "aggregateAllHeldKeys"
  /\ planOut.tol > 0
  /\ Len(planOut.segments) >= 2
  /\ PlanTotal(planOut.segments) = planOut.absRem - planOut.tol

C1_GreedyExceedsMargin ==
  /\ planOut.by = "finishWithDecimals"
  /\ PlanTotal(planOut.segments) > planOut.absRem - planOut.tol

HasUnitStep(cal) ==
  \E i \in 1..Len(cal) : cal[i].target = MILLI /\ cal[i].heldKey = "-"

C2_Pre ==
  /\ prog = "moveTo"
  /\ sensor = "exact"
  /\ HasUnitStep(opts.calibration)
  /\ opts.dirKeys = DEFAULT_DIR_KEYS
  /\ opts.smallestMaxTries >= 1

C3_Scenario1 ==
  (prog = "moveTo" /\ opts = Scenario1Opts /\ pc = "start") ~>
     (/\ pc = "done"
      /\ result.ok
      /\ result.final >= 23350 * MILLI
      /\ result.final <= 23450 * MILLI)

C3_Witness ==
  /\ prog = "moveTo"
  /\ opts = Scenario1Opts
  /\ first = 0
  /\ pc = "done"
  /\ result.ok
  /\ result.final >= 23350 * MILLI
  /\ result.final <= 23450 * MILLI

C4_BatchedOkAtMaxSteps ==
  /\ prog = "batched"
  /\ pc = "done"
  /\ result.reason = "max_steps"
  /\ result.ok

C6_ModifierReleasedOnThrow ==
  (pc = "threw" /\ err = "Unknown button") =>
    /\ down = {}
    /\ (HasHold(act) => ups[KeyOf(act.hold)] = 1)

C6_Witness ==
  /\ pc = "threw"
  /\ err = "Unknown button"
  /\ HasHold(act)
  /\ ups[KeyOf(act.hold)] = 1
  /\ KeyOf(act.hold) \notin down

\* C7: a cancellation arriving during the timed hold of a direction key under
\* a modifier leaves the modifier released exactly once and not held when the
\* process ends.
C7_ModifierReleasedOnCancel ==
  (pc = AbortExit /\ abortAt = "sleep_hold" /\ HasHold(act)) =>
    /\ KeyOf(act.hold) \notin down
    /\ ups[KeyOf(act.hold)] = 1

C7_Witness ==
  /\ pc = AbortExit
  /\ abortAt = "sleep_hold"
  /\ HasHold(act)
  /\ KeyOf(act.hold) \notin down
  /\ ups[KeyOf(act.hold)] = 1

AllSleepPcs == SleepPcs \cup {"cj_hold", "cj_settle"}

\* C8: once cancellation has been requested no pending delay completes
\* normally and no further key-down is issued.
C8_NothingAfterCancel ==
  [][aborted =>
       /\ ~downAfterCancel'
       /\ (pc \in AllSleepPcs => pc' \in {"threw", AbortExit})]_vars

C8_KeyDownAfterCancel ==
  /\ prog = "cloneJob"
  /\ aborted
  /\ downAfterCancel
  /\ down # {}

\* C9: the abort handler releases every button of PS_MAP before the process
\* exits, so no key is down once a cancellation has been handled.
C9_AllReleasedOnAbort ==
  /\ \A b \in Buttons : KeyOf(b) \in AbortReleased
  /\ (prog \in {"moveTo", "batched"} /\ aborted) =>
       /\ pc = AbortExit
       /\ down = {}
       /\ ~downAfterCancel

C9_Witness ==
  /\ prog \in {"moveTo", "batched"}
  /\ pc = AbortExit
  /\ abortAt = "sleep_hold"
  /\ ~HasHold(act)
  /\ ups[KeyOf(act.dirKey)] = 1
  /\ down = {}

\* C10: a failed sensor read ends the run at once with the read's error:
\* no retry, no further read and no further key press.
C10_SensorFailureFatal ==
  failed =>
    /\ pc = "threw"
    /\ err = "OCR failed"
    /\ ~afterFail
    /\ result = NoResult

C10_Witness ==
  /\ failed
  /\ prog = "moveTo"
  /\ pc = "threw"
  /\ err = "OCR failed"
  /\ rows >= 1
  /\ pressed

ValidRecord(c) ==
  IsFinite(c.target) /\ c.target > 0 /\ IsFinite(c.ms) /\ c.ms > 0

NoValidRecord(cal) == \A i \in 1..Len(cal) : ~ValidRecord(cal[i])

\* C11: a move requested with an empty profile, or with a profile whose
\* records are all invalid, fails with an error before any sensor read and
\* before any key is pressed.
C11_InvalidProfileFailsEarly ==
  (prog \in {"moveTo", "batched"} /\ NoValidRecord(opts.calibration)) =>
    /\ pc \in {"start", "threw"}
    /\ first = NaN
    /\ ~failed
    /\ ~pressed

C11_BatchedPressesOnInvalid ==
  /\ prog = "batched"
  /\ opts.calibration = TableInvalid
  /\ pressed

C11_MoveToRejectsInvalid ==
  (prog = "moveTo" /\ NoValidRecord(opts.calibration)) =>
    /\ pc \in {"start", "threw"}
    /\ first = NaN /\ ~failed /\ ~pressed

IsSortedDesc(pl) == \A i \in 1..(Len(pl) - 1) : pl[i].step >= pl[i + 1].step

\* the valid records of a calibration list, as plan entries, in input order
ValidEntries(cal) ==
  LET valid == SelectSeq(cal, ValidRecord)
  IN [i \in 1..Len(valid) |->
        [step    |-> valid[i].target,
         ms      |-> valid[i].ms,
         heldKey |-> IF valid[i].heldKey = "undefined" THEN "-"
                     ELSE valid[i].heldKey]]

Occurrences(sq, x) == Cardinality({i \in 1..Len(sq) : sq[i] = x})

SameRecords(a, b) ==
  /\ Len(a) = Len(b)
  /\ \A i \in 1..Len(a) : Occurrences(a, a[i]) = Occurrences(b, a[i])

ExactlyValidSorted(pl, cal) ==
  IsSortedDesc(pl) /\ SameRecords(pl, ValidEntries(cal))

\* C12: for every input calibration list, in any order, the table the
\* controller plans from holds exactly the input records whose target and ms
\* are both finite and greater than 0, ordered by descending step.
C12_TableExactlyValidSorted ==
  /\ (prog \in {"moveTo", "batched"} /\ pc # "start") =>
       ExactlyValidSorted(plan, opts.calibration)
  /\ (prog = "grouped" /\ pc = "planned") =>
       ExactlyValidSorted(plan, opts.calibration)

C12_MoveToTable ==
  (prog = "moveTo" /\ pc # "start") =>
    ExactlyValidSorted(plan, opts.calibration)

C12_MoveToMixedTable ==
  /\ prog = "moveTo"
  /\ opts.calibration = TableMixed
  /\ Len(plan) = 4
  /\ pressed

C12_BatchedKeepsInvalid ==
  /\ prog = "batched"
  /\ pc # "start"
  /\ \E i \in 1..Len(plan) : plan[i].step <= 0

C12_GroupedKeepsZeroMs ==
  /\ prog = "grouped"
  /\ pc = "planned"
  /\ \E i \in 1..Len(plan) : plan[i].ms <= 0

\* the tolerance of the claim: max(absolute, |target| * relative part), the
\* relative part being relPct percent in moveTo.js and the fraction relPct in
\* the batched revision
ClaimedTolerance ==
  IF prog = "moveTo"
  THEN Max(opts.absTol, (opts.relPct * Abs(opts.target)) \div (100 * PCT))
  ELSE Max(opts.absTol, (Abs(opts.target) * opts.relPct) \div PCT)

\* the move has computed its tolerance
ToleranceSet ==
  \/ prog = "moveTo" /\ first # NaN
  \/ prog = "batched" /\ pc \notin {"start", "threw"}

\* C13: the tolerance a move converges against equals
\* max(absolute, |target| * relativePct); it is never negative and is fixed
\* by the target and the configured tolerance, whatever the sensor reads.
C13_ToleranceFromTargetOnly ==
  ToleranceSet => (tol = ClaimedTolerance /\ tol >= 0)

\* moveTo.js, target 0 with a relative tolerance: the first reading decides
C13_ToleranceFollowsReading ==
  /\ prog = "moveTo"
  /\ opts.target = 0 /\ opts.absTol = 0 /\ opts.relPct = PCT
  /\ first = 7005 * MILLI
  /\ tol = (7005 * MILLI) \div 100

C13_BatchedTolerance ==
  (prog = "batched" /\ ToleranceSet) => (tol = ClaimedTolerance /\ tol >= 0)

\* C14: for every target (and, in moveTo.js, every first reading), a larger
\* absolute tolerance or a larger relative tolerance never gives a smaller
\* effective tolerance than the one the move computed.
C14_ToleranceMonotone ==
  /\ (prog = "moveTo" /\ ToleranceSet) =>
       /\ tol = TolOf(opts, first)
       /\ \A da \in {0, 1, MILLI, 7 * MILLI}, dr \in {0, 1, PCT, 5 * PCT} :
            TolOf([opts EXCEPT !.absTol = @ + da, !.relPct = @ + dr], first)
              >= tol
  /\ (prog = "batched" /\ ToleranceSet) =>
       /\ tol = effectiveFinalTolerance(opts.target, opts.relPct, opts.absTol)
       /\ \A da \in {0, 1, MILLI, 7 * MILLI}, dr \in {0, 1, PCT, 5 * PCT} :
            effectiveFinalTolerance(opts.target, opts.relPct + dr,
                                    opts.absTol + da) >= tol

\* a move whose tolerance comes from the relative part, so that raising
\* either part is a real change
C14_Witness ==
  /\ prog = "moveTo"
  /\ ToleranceSet
  /\ opts.relPct > 0
  /\ tol > opts.absTol
  /\ TolOf([opts EXCEPT !.absTol = tol + MILLI], first) > tol
  /\ TolOf([opts EXCEPT !.relPct = @ + PCT], first) > tol

\* a and b differ by a whole number of turns
Congruent360(a, b) == (a - b) % (360 * ONE) = 0

\* what the claim asks of a conversion of signedDeg that returned v
To360Result(signedDeg, v) ==
  /\ v >= 0 /\ v < 360 * ONE
  /\ Congruent360(v, signedDeg)
  /\ v = (IF signedDeg < 0 THEN 360 * ONE + signedDeg ELSE signedDeg)

\* C15: the conversion to the 0-360 domain maps every angle a of [-180, 180]
\* to a value of [0, 360) congruent to a modulo 360 (360 + a for a negative
\* a, a itself otherwise), and fails with a RangeError, returning no value,
\* for every a outside [-180, 180].
C15_To360Contract ==
  (prog \in RotProgs /\ pc # "rot") =>
    IF InRange180(opts.targetSigned)
    THEN err # RangeErrorMsg /\ To360Result(opts.targetSigned, opts.target)
    ELSE pc = "threw" /\ err = RangeErrorMsg

\* to360 of calibration.js converts 200 to 200 and the move goes on
C15_To360AcceptsOutOfRange ==
  /\ prog = "runMoveRotation"
  /\ opts.targetSigned = 200 * ONE
  /\ opts.target = 200 * ONE
  /\ pressed

\* to360From180 of helpers/utils.js alone
C15_To360From180Contract ==
  (prog = "runPlacementROT" /\ pc # "rot") =>
    IF InRange180(opts.targetSigned)
    THEN err # RangeErrorMsg /\ To360Result(opts.targetSigned, opts.target)
    ELSE pc = "threw" /\ err = RangeErrorMsg

\* both conversions agree on [-180, 180]
C15_InRangeAgree ==
  (prog \in RotProgs /\ pc # "rot" /\ InRange180(opts.targetSigned)) =>
    To360Result(opts.targetSigned, opts.target)

C15_MinusNinety ==
  /\ prog = "runPlacementROT"
  /\ opts.targetSigned = 0 - 90 * ONE
  /\ opts.target = 270 * ONE
  /\ pc = "done"

\* C16: normSigned returns, for every finite angle, a value in (-180, 180]
\* congruent to the angle modulo 360, and normalising that value again
\* leaves it unchanged.
C16_NormSignedRangeIdempotent ==
  (prog = "moveRotationSmart" /\ pc # "start" /\ IsFinite(opts.current)) =>
    /\ locals.cur > 0 - 180 * ONE /\ locals.cur <= 180 * ONE
    /\ Congruent360(locals.cur, opts.current)
    /\ normSigned(locals.cur) = locals.cur

\* an angle outside the range was normalised, and one on the closed end
C16_Witness ==
  /\ prog = "moveRotationSmart"
  /\ pc = "done"
  /\ opts.current = 725 * ONE /\ locals.cur = 5 * ONE
  /\ opts.target = 0 - 180 * ONE /\ locals.tgt = 180 * ONE

\* C17: for all current and target angles the signed shortest delta has a
\* magnitude of at most 180 and is congruent to target - current modulo 360;
\* from 350 to 10 it is +20.
C17_ShortestDeltaBounded ==
  (prog = "moveRotationSmart" /\ pc # "start") =>
    /\ Abs(locals.delta) <= 180 * ONE
    /\ Congruent360(locals.delta,
                    toFinite(opts.target, toFinite(opts.current, 0))
                      - toFinite(opts.current, 0))
    /\ (opts.current = 350 * ONE /\ opts.target = 10 * ONE) =>
         locals.delta = 20 * ONE

\* from 350 to 10: delta +20, rotated to the right
C17_Witness ==
  /\ prog = "moveRotationSmart"
  /\ pc = "mrs_hold"
  /\ opts.current = 350 * ONE /\ opts.target = 10 * ONE
  /\ locals.delta = 20 * ONE
  /\ act.dirKey = "DPAD_RIGHT"
  /\ KeyOf("DPAD_RIGHT") \in down

\* an actuation of moveTo is in progress
ActuationPcs == {"act_begin", "sleep_lead", "tap", "sleep_hold", "sleep_tail",
                 "release_hold"}

\* the positions of one probe of a tuning run, from its first read to its
\* second
ProbePcs == {"tune_measure", "tune_read"} \cup ActuationPcs

\* C18: in a rotational move (the target converted to the 0-360 domain, then
\* the same control loop) every actuation goes the way of the shortest
\* angular path from the reading it was decided on to the target.
C18_ShortestPathDirection ==
  (prog \in RotProgs /\ pc \in ActuationPcs) =>
    LET d == normSigned(opts.target - current)
    IN /\ (d > 0 /\ d < 180 * ONE) => act.dirKey = opts.dirKeys.positive
       /\ d < 0 => act.dirKey = opts.dirKeys.negative

\* reading 350, target 10: the key held is the negative one
C18_LongWayRound ==
  /\ prog = "runPlacementROT"
  /\ opts.target = 10 * ONE
  /\ current = 350 * ONE
  /\ pc = "sleep_hold"
  /\ act.dirKey = "DPAD_LEFT"
  /\ KeyOf("DPAD_LEFT") \in down

\* C19: in the two-phase move the decimal phase reads nothing on entry and
\* reads exactly once per iteration, after the iteration has actuated; over
\* the run the reads are the initial one plus one per actuating iteration
\* of either phase.
C19_OneReadPerActuatingCycle ==
  (prog = "moveToTest" /\ pc \notin {"start", "threw", AbortExit}) =>
    /\ locals.reads = IF pc \in {"w_loop", "f_loop", "done"}
                      THEN 1 + locals.cycles
                      ELSE locals.cycles
    /\ locals.fracReads = IF pc \in {"w_loop", "f_loop", "done"}
                             \/ locals.fracCycles = 0
                          THEN locals.fracCycles
                          ELSE locals.fracCycles - 1
    /\ (pc = "t_readF" => pressed)

\* a run that actuated in both phases and finished
C19_Witness ==
  /\ prog = "moveToTest"
  /\ pc = "done"
  /\ result.ok
  /\ locals.fracCycles >= 1
  /\ locals.cycles > locals.fracCycles
  /\ locals.reads = 1 + locals.cycles

\* the earliest probe of pr whose error is the lowest of all
EarliestBest(pr) ==
  CHOOSE j \in 1..Len(pr) :
    /\ \A k \in 1..Len(pr) : pr[k].err >= pr[j].err
    /\ \A k \in 1..(j - 1) : pr[k].err > pr[j].err

\* C20: a tuning run records, for the requested step, the duration of the
\* probe with the lowest error |measured delta - step| of all its probes,
\* the earliest one on a tie, whether it stopped on the tolerance, on the
\* collapse of the bracket or on the iteration budget.
C20_RecordsEarliestBestProbe ==
  (prog \in TuneProgs /\ pc = "done") =>
    /\ locals.probes # <<>>
    /\ result.reason \in {"tolerance", "collapse", "budget"}
    /\ result.final = locals.probes[EarliestBest(locals.probes)].ms
    /\ result.steps = EarliestBest(locals.probes)

\* a run ended by the collapse of the bracket whose lowest error was measured
\* twice, the last time by the last probe, after a probe with a higher error
C20_Witness ==
  /\ prog = "tuneForTarget"
  /\ pc = "done"
  /\ result.reason = "collapse"
  /\ Len(locals.probes) >= 3
  /\ locals.probes[Len(locals.probes)].err = result.error
  /\ result.steps > 1
  /\ result.steps < Len(locals.probes)

C20_StopsOnBudget ==
  /\ prog = "tuneForTargetRotation"
  /\ pc = "done"
  /\ result.reason = "budget"
  /\ result.steps < Len(locals.probes)

C20_StopsOnTolerance ==
  /\ prog \in TuneProgs
  /\ pc = "done"
  /\ result.reason = "tolerance"
  /\ result.steps = Len(locals.probes)
  /\ Len(locals.probes) > 1

C21_BatchedOverBudget ==
  /\ prog = "batched"
  /\ pc = "done"
  /\ result.reason = "smallest_step_exhausted"
  /\ locals.smallestTries > opts.smallestMaxTries

\* the messages a move can be rejected with
MoveErrors ==
  {"calibration is required and must be a non-empty array",
   "calibration produced no valid steps",
   "moveTo: calibration array is required.",
   "OCR failed", "Unknown button", RangeErrorMsg}

\* C22: a run that uses up its batch budget without converging does not
\* throw: it returns ok = false with reason "max_steps", the last sensor
\* reading as final value and target minus that reading as error.
C22_MaxStepsResult ==
  /\ (prog \in MoveToProgs /\ pc = "done"
        /\ Abs(opts.target - current) > tol) =>
       /\ rows >= opts.maxSteps
       /\ result = [ok |-> FALSE, reason |-> "max_steps", steps |-> rows,
                    final |-> current, error |-> opts.target - current]
  /\ (prog = "batched" /\ pc = "done" /\ locals.batch > opts.maxSteps
        /\ Abs(opts.target - current) > tol) =>
       result = [ok |-> FALSE, reason |-> "max_steps", steps |-> rows,
                 final |-> current, error |-> opts.target - current]
  /\ (prog \in MoveToProgs \cup {"batched"} /\ pc = "threw") =>
       err \in MoveErrors

\* the batched variant after maxSteps batches, still outside tolerance
C22_Witness ==
  /\ prog = "batched"
  /\ pc = "done"
  /\ opts.maxSteps >= 1
  /\ locals.batch > opts.maxSteps
  /\ rows = opts.maxSteps
  /\ Abs(opts.target - current) > tol
  /\ result.reason = "max_steps"
  /\ result.error = opts.target - current

\* moveTo after its main loop ran out of batches and its nudges did not help
C22_MoveToOutOfBatches ==
  /\ prog = "moveTo"
  /\ pc = "done"
  /\ opts.maxSteps >= 1
  /\ rows >= opts.maxSteps
  /\ ~result.ok
  /\ result.reason = "max_steps"
  /\ result.final = current
  /\ result.error = opts.target - current

(***************************************************************************)
(* C23                                                                     *)
(***************************************************************************)
DirectedProgs == MoveToProgs \cup {"batched", "simple"}

C23_SimpleLeft ==
  /\ prog = "simple"
  /\ pc = "tap"
  /\ locals.iter > 1
  /\ opts.target < current
  /\ act.dirKey = "DPAD_LEFT"

(***************************************************************************)
(* C24                                                                     *)
(***************************************************************************)
\* where moveTo decides: tolerance check, plan / entry choice, direction
MoveDecisionPcs == {"ppA", "ppB", "main", "nudge"}

\* one step of moveTo seen from the reads
ReadDiscipline ==
  prog \in MoveToProgs =>
    /\ (pc \in ActuationPcs /\ pc' \notin ActuationPcs
           /\ pc' \notin {AbortExit, "threw"})
         => pc' \in (MoveReadPcs \ {"read0"}) \cup {"A_row"}
    /\ (pc = "A_row" /\ pc' \notin {AbortExit, "threw"})
         => pc' = "A_seg"
    /\ (pc = "A_seg" /\ pc' \notin {AbortExit, "threw"})
         => \/ segs # <<>> /\ pc' = "act_begin"
            \/ segs = <<>> /\ pc' = "readA"
    /\ (pc \in MoveReadPcs /\ pc' \notin {AbortExit, "threw"})
         => pc' \in MoveDecisionPcs
    /\ (current' # current) => pc \in MoveReadPcs
    /\ (pc' \in MoveDecisionPcs /\ sensor = "exact") => current' = axis'

\* C24: in moveTo an executed plan, single-step batch or nudge is followed by
\* one sensor read (after the last segment of the plan), a read is followed by
\* a decision and never by a second read, current changes in reads only, and
\* at every decision current is the value of the latest read (against an exact
\* actuator: the position the axis has then).
C24_OneReadThenDecide == [][ReadDiscipline]_vars

\* a decision of the nudge loop after a nudge and its read
C24_Witness ==
  /\ prog = "moveTo"
  /\ pc = "nudge"
  /\ tries >= 1
  /\ sensor = "exact"
  /\ current = axis
  /\ current # first

\* phase B decides on the reading taken after an executed aggregate plan
C24_AfterPlan ==
  /\ prog = "moveTo"
  /\ pc = "ppB"
  /\ ~aggEmpty
  /\ sensor = "exact"
  /\ current = axis
  /\ current # first

(***************************************************************************)
(* C25                                                                     *)
(***************************************************************************)
\* the reading is outside tolerance and no step of the table fits
NoStepFits(table, absRemaining, tl) ==
  /\ table # <<>>
  /\ absRemaining > tl
  /\ \A i \in 1..Len(table) : table[i].step > absRemaining - tl

TowardTarget ==
  IF opts.target - current > 0 THEN opts.dirKeys.positive
  ELSE opts.dirKeys.negative

\* moveTo.js: the pre-pass does nothing, the main loop (or, with its budget
\* used up, the nudge loop) presses the smallest entry once and re-reads
NudgeInMoveTo ==
  (prog \in MoveToProgs /\ pc \in MoveDecisionPcs
     /\ NoStepFits(plan, Abs(opts.target - current), tol)) =>
    /\ pc \in {"ppA", "ppB"} => pc' \in {"ppA", "ppB", "main"}
    /\ (pc = "main" /\ rows < opts.maxSteps) =>
         /\ pc' = "act_begin"
         /\ act' = BatchAct(TowardTarget, plan[Len(plan)], 1, "readM")
    /\ (pc = "main" /\ rows >= opts.maxSteps) => pc' = "nudge"
    /\ (pc = "nudge" /\ tries < opts.smallestMaxTries) =>
         /\ pc' = "act_begin"
         /\ act' = BatchAct(TowardTarget, plan[Len(plan)], 1, "readN")

\* finishWithDecimals of the two-phase move
NudgeInFinishWithDecimals ==
  (prog = "moveToTest" /\ pc = "f_loop" /\ locals.i < maxIters
     /\ NoStepFits(plan, Abs(opts.target - current), FracTolOf(opts))) =>
    /\ pc' = "act_begin"
    /\ act' = BatchAct(TowardTarget, plan[Len(plan)], 1, "f_seg")
    /\ segs' = <<>>

\* the simple variant of part_008
NudgeInSimple ==
  (prog = "simple" /\ pc = "s_loop" /\ locals.iter <= opts.maxLoops
     /\ NoStepFits(GroupedSteps(opts.calibration),
                   Abs(opts.target - current), opts.tol)) =>
    LET steps    == GroupedSteps(opts.calibration)
        smallest == steps[Len(steps)]
    IN /\ pc' = "s_seg"
       /\ act'.dirKey = TowardTarget
       /\ Len(segs') = 1
       /\ segs'[1].heldKey = smallest.heldKey
       /\ SumCountMs(segs'[1].detail) = smallest.ms
       /\ SumDist(segs'[1].detail) = smallest.step

\* C25: whenever the reading is outside tolerance and no calibrated step is
\* less than or equal to absRemaining - tol, the controller (with budget
\* left) actuates next with exactly one press of the smallest calibrated
\* entry, with that entry's duration and modifier, toward the target, and
\* re-reads after it.
C25_NudgeWithSmallest ==
  [][NudgeInMoveTo /\ NudgeInFinishWithDecimals /\ NudgeInSimple]_vars

\* the same for moveTo.js alone
C25_MoveToNudges == [][NudgeInMoveTo]_vars

\* the same for finishWithDecimals alone
C25_FinishNudges == [][NudgeInFinishWithDecimals]_vars

\* the same for the simple variant alone
C25_SimpleNudges == [][NudgeInSimple]_vars

\* moveTo.js about to press the smallest entry once because nothing fits
C25_MoveToFallback ==
  /\ prog = "moveTo"
  /\ pc = "act_begin"
  /\ act.ret = "readM"
  /\ NoStepFits(plan, Abs(opts.target - current), tol)
  /\ act = BatchAct(TowardTarget, plan[Len(plan)], 1, "readM")

\* the simple variant re-reads without having pressed anything
C25_SimpleNoPress ==
  /\ prog = "simple"
  /\ pc = "s_read"
  /\ ~pressed
  /\ NoStepFits(GroupedSteps(opts.calibration),
                Abs(opts.target - current), opts.tol)

(***************************************************************************)
(* C26                                                                     *)
(***************************************************************************)
\* every actuation of moveTo is paid from one of its three budgets
WithinBudgets ==
  (prog \in MoveToProgs /\ pc = "act_begin") =>
    /\ act.ret \in {"A_row", "readB", "readM", "readN"}
    /\ act.ret \in {"A_row", "readB"} => cycle <= MAX_PREPASS_CYCLES
    /\ act.ret = "readM" => rows < opts.maxSteps
    /\ act.ret = "readN" => tries <= opts.smallestMaxTries

\* C26: whatever the sensor reads, a pre-pass actuation belongs to one of at
\* most 9 cycles, a main-loop batch is started with fewer than maxSteps rows
\* and a nudge is one of at most smallestMaxTries, and a run that is not
\* cancelled returns its result (or ends with the failure of a read or of a
\* key event).
C26_MoveTerminates ==
  /\ []WithinBudgets
  /\ (prog \in MoveToProgs /\ pc = "ppA" /\ cycle = 1)
       ~> \/ pc = "done"
          \/ pc = "threw" /\ (failed \/ err = "Unknown button")

\* a run against an arbitrary sensor that used every budget and returned
C26_Witness ==
  /\ prog = "moveTo"
  /\ sensor = "any"
  /\ pc = "done"
  /\ cycle > MAX_PREPASS_CYCLES
  /\ rows >= opts.maxSteps
  /\ tries = opts.smallestMaxTries
  /\ tries >= 1
  /\ ~result.ok

(***************************************************************************)
(* C27                                                                     *)
(***************************************************************************)
\* |delta| is within epsilon = 0.001 of 0 or of 180
Zeroish(delta) ==
  Abs(delta) < MILLI \/ Abs(Abs(delta) - 180 * ONE) < MILLI

\* C27: with a positive speed moveRotationSmart presses no key when the
\* magnitude of the shortest delta is within epsilon of 0 or of 180, and
\* otherwise presses exactly one key, once: DPAD_RIGHT when the delta is
\* positive and DPAD_LEFT when it is negative.
C27_OneKeyOrNone ==
  (/\ prog = "moveRotationSmart"
   /\ pc # "start"
   /\ IsFinite(opts.speed)
   /\ opts.speed > 0) =>
    LET key   == KeyOf(IF locals.delta > 0 THEN "DPAD_RIGHT" ELSE "DPAD_LEFT")
        other == {k \in DOMAIN ups : k # key}
    IN IF Zeroish(locals.delta)
       THEN /\ pc = "done"
            /\ ~pressed
            /\ down = {}
            /\ \A k \in DOMAIN ups : ups[k] = 0
       ELSE /\ pressed
            /\ pc = "mrs_hold" => (down = {key} /\ ups[key] = 0)
            /\ pc = "done" => (down = {} /\ ups[key] = 1)
            /\ \A k \in other : ups[k] = 0

\* a rotation to the left, pressed once and released
C27_Witness ==
  /\ prog = "moveRotationSmart"
  /\ pc = "done"
  /\ opts.speed = 30
  /\ locals.delta < 0
  /\ ~Zeroish(locals.delta)
  /\ ups[KeyOf("DPAD_LEFT")] = 1
  /\ ups[KeyOf("DPAD_RIGHT")] = 0

\* a half turn: nothing is pressed
C27_HalfTurn ==
  /\ prog = "moveRotationSmart"
  /\ pc = "done"
  /\ opts.speed = 30
  /\ Abs(locals.delta) = 180 * ONE
  /\ ~pressed

(***************************************************************************)
(* C28                                                                     *)
(***************************************************************************)
\* every step of the segment is the step of an entry of the table, and the
\* (step, ms) pairs it was summed from are entries of that class
SegmentUses(seg, entries) ==
  \A j \in 1..Len(seg.detail) :
    \E i \in 1..Len(entries) :
      /\ entries[i].step = seg.detail[j].step
      /\ entries[i].ms = seg.detail[j].msEach
      /\ entries[i].heldKey = seg.heldKey

WholeEntries == SelectSeq(plan, LAMBDA p : p.step >= ONE)
FracEntries == SelectSeq(plan, LAMBDA p : p.step < ONE)

\* a step of the two-phase move that starts an actuation
TwoPhaseActuation ==
  (prog = "moveToTest" /\ pc # "act_begin" /\ pc' = "act_begin") =>
    \/ /\ pc = "w_seg"
       /\ segs # <<>>
       /\ SegmentUses(Head(segs), WholeEntries)
       /\ act' = SegAct(act.dirKey, Head(segs), "w_seg")
       /\ act.dirKey = IF TruncTowardZero(opts.target) - current > 0
                       THEN opts.dirKeys.positive ELSE opts.dirKeys.negative
       /\ locals.phase = "whole"
       /\ locals.fracCycles = 0
       /\ locals.cycles <= maxCycles
    \/ /\ pc = "f_seg"
       /\ segs # <<>>
       /\ SegmentUses(Head(segs), FracEntries)
       /\ act' = SegAct(act.dirKey, Head(segs), "f_seg")
       /\ locals.phase = "frac"
       /\ locals.fracCycles >= 1
    \/ /\ pc = "f_loop"
       /\ \E i \in 1..Len(FracEntries) :
            act' = BatchAct(act'.dirKey, FracEntries[i], 1, "f_seg")
       /\ locals.phase = "frac"
       /\ locals'.fracCycles >= 1

\* C28: in the two-phase move every actuation of the whole-number phase is
\* summed from calibration entries with step >= 1, is directed toward
\* trunc-toward-zero(target) and belongs to one of at most 8 cycles; every
\* actuation of the fractional phase uses entries with step < 1 only; and no
\* whole-phase actuation starts after a fractional-phase cycle.
C28_PhasesUseTheirEntries == [][TwoPhaseActuation]_vars

\* a fractional-phase plan after a whole-phase cycle
C28_Witness ==
  /\ prog = "moveToTest"
  /\ pc = "f_seg"
  /\ segs # <<>>
  /\ locals.cycles - locals.fracCycles >= 1
  /\ locals.fracCycles = 1

\* the whole phase gives up after its 8 cycles
C28_WholeBudgetUsed ==
  /\ prog = "moveToTest"
  /\ pc = "w_loop"
  /\ locals.i = maxCycles
  /\ Abs(TruncTowardZero(opts.target) - current) > opts.wholeTol

(***************************************************************************)
(* C29                                                                     *)
(***************************************************************************)
\* err <= tolInfo.eff for a recorded probe
ProbeOk(p) == 2 * p.err <= effectiveTolerance2(locals.target)

\* C29: a tuning run probes at least once and at most maxSubIters times; no
\* probe follows a probe within the effective tolerance, no probe repeats the
\* duration of the probe before it (the run stops when the recomputed
\* midpoint equals the duration just probed), and a finished run stopped for
\* one of the three reasons, tested in this order: tolerance, collapse,
\* budget.
C29_ProbeCount ==
  (prog \in TuneProgs /\ pc # "start") =>
    LET n == Len(locals.probes)
    IN /\ n <= opts.maxSubIters
       /\ n = IF pc = "done" THEN locals.i + 1 ELSE locals.i
       /\ \A j \in 1..(n - 1) :
            /\ ~ProbeOk(locals.probes[j])
            /\ locals.probes[j + 1].ms # locals.probes[j].ms
       /\ pc \in ProbePcs \cup {"tune_update"} =>
            /\ n < opts.maxSubIters
            /\ n >= 1 => (/\ ~ProbeOk(locals.probes[n])
                          /\ locals.ms # locals.probes[n].ms)
       /\ pc = "done" =>
            /\ n >= 1
            /\ result.reason \in {"tolerance", "collapse", "budget"}
            /\ result.reason = "tolerance" <=> ProbeOk(locals.probes[n])
            /\ result.reason = "collapse" =>
                 Midpoint(locals.low, locals.high) = locals.probes[n].ms
            /\ result.reason = "budget" =>
                 (/\ n = opts.maxSubIters
                  /\ Midpoint(locals.low, locals.high) # locals.probes[n].ms)

\* the bracket collapsed before the budget of 30 probes was used
C29_Witness ==
  /\ prog = "tuneForTarget"
  /\ pc = "done"
  /\ opts.maxSubIters = MAX_SUB_ITERS
  /\ result.reason = "collapse"
  /\ Len(locals.probes) >= 4

\* a run that stopped after its first probe
C29_OneProbe ==
  /\ prog = "tuneForTarget"
  /\ pc = "done"
  /\ Len(locals.probes) = 1
  /\ result.reason = "tolerance"

\* a run that used its whole budget
C29_BudgetUsed ==
  /\ prog \in TuneProgs
  /\ pc = "done"
  /\ result.reason = "budget"

(***************************************************************************)
(* C30                                                                     *)
(***************************************************************************)
\* the bracket and the duration probed next, and the earlier probes against
\* the durations probed after them
BracketOrdered ==
  (prog \in TuneProgs /\ pc # "start") =>
    LET n == Len(locals.probes)
    IN /\ MIN_MS <= locals.low
       /\ locals.low <= locals.high
       /\ locals.high <= MAX_MS
       /\ pc # "done" => (locals.low <= locals.ms /\ locals.ms <= locals.high)
       /\ \A j \in 1..n :
            LET later == {locals.probes[k].ms : k \in (j + 1)..n}
                           \cup (IF pc \in ProbePcs THEN {locals.ms} ELSE {})
            IN IF locals.probes[j].over
               THEN \A d \in later : d <= locals.probes[j].ms
               ELSE \A d \in later : d >= locals.probes[j].ms

BracketShrinks ==
  (prog \in TuneProgs /\ pc # "start") =>
    /\ locals'.low >= locals.low
    /\ locals'.high <= locals.high

\* C30: throughout a tuning run MIN_MS <= low <= high <= MAX_MS, low never
\* decreases and high never increases, every probed duration lies in the
\* bracket current at the time of the probe, and after a probe at d that
\* measured more than the step every later probe is at a duration <= d,
\* after one that measured less or equal at a duration >= d.
C30_Bracket == []BracketOrdered /\ [][BracketShrinks]_vars

\* both ends of the bracket have moved
C30_Witness ==
  /\ prog = "tuneForTarget"
  /\ pc = "tune_measure"
  /\ locals.low > MIN_MS
  /\ locals.high < MAX_MS
  /\ Len(locals.probes) >= 3

(***************************************************************************)
(* C31                                                                     *)
(***************************************************************************)
\* no modifier is the heldKey of two segments
ModifiersOnce(segments) ==
  \A i, j \in 1..Len(segments) :
    (i # j /\ segments[i].heldKey # "-") =>
      segments[i].heldKey # segments[j].heldKey

\* C31: in every plan the step planner returns (aggregateAllHeldKeys, and
\* aggregateGreedy of the two-phase planner) each distinct modifier appears
\* in at most one segment.
C31_ModifierOncePerPlan ==
  (prog = "planner" /\ pc = "planned") => ModifiersOnce(planOut.segments)

\* a plan of aggregateAllHeldKeys with the same modifier in two segments
C31_ModifierTwice ==
  /\ prog = "planner"
  /\ pc = "planned"
  /\ planOut.by = "aggregateAllHeldKeys"
  /\ Len(planOut.segments) = 3
  /\ planOut.segments[1].heldKey = "SQUARE"
  /\ planOut.segments[3].heldKey = "SQUARE"

\* executing one plan of moveTo presses the same modifier a second time
C31_PressedTwiceInOnePlan ==
  /\ prog = "moveTo"
  /\ pc = "sleep_hold"
  /\ act.ret = "A_row"
  /\ cycle = 1
  /\ act.hold = "SQUARE"
  /\ rows >= 2
  /\ KeyOf("SQUARE") \in down

(***************************************************************************)
(* C32                                                                     *)
(***************************************************************************)
\* the larger of tol and half of the next-smaller step of the table (for the
\* smallest step: half of that step, as the batched revision takes it)
SafetyMargin(step, table, tl) ==
  LET smaller == {table[i].step : i \in 1..Len(table)} \cap 0..(step - 1)
  IN IF smaller = {} THEN Max(tl, step \div 2)
     ELSE Max(tl, (CHOOSE m \in smaller : \A x \in smaller : x <= m) \div 2)

\* every entry of the plan covers at most limit(step)
EntriesWithin(segments, Limit(_)) ==
  \A i \in 1..Len(segments) :
    \A j \in 1..Len(segments[i].detail) :
      LET d == segments[i].detail[j]
      IN d.step * d.repeats <= Limit(d.step)

\* C32 (as stated): for each table entry the planner consumes, the distance
\* covered by that entry's repeats is at most absRemaining - safetyMargin,
\* safetyMargin being the larger of tol and half of the next-smaller step.
C32_EntryWithinSafetyMargin ==
  /\ (prog = "planner" /\ pc = "planned"
        /\ planOut.by = "aggregateAllHeldKeys") =>
       EntriesWithin(planOut.segments,
         LAMBDA st : planOut.absRem - SafetyMargin(st, plan, planOut.tol))
  /\ (prog = "batched" /\ pc = "act_begin") =>
       act.dist <= Abs(opts.target - current)
                     - SafetyMargin(act.dist \div locals.repeats, plan, tol)

\* C32 (amended): every entry of a plan of aggregateAllHeldKeys covers at
\* most absRemaining - tol (half of the next-smaller step plays no part);
\* a batch of the batched revision is at least one press and at most 200,
\* and whenever it is more than one press it covers at most
\* absRemaining - safetyMargin.
C32_EntryBounds ==
  /\ (prog = "planner" /\ pc = "planned"
        /\ planOut.by = "aggregateAllHeldKeys") =>
       EntriesWithin(planOut.segments,
         LAMBDA st : planOut.absRem - planOut.tol)
  /\ (prog = "batched" /\ pc = "act_begin") =>
       /\ locals.repeats >= 1
       /\ locals.repeats <= MAX_REPEATS_PER_BATCH
       /\ act.dist = chooseStep(Abs(opts.target - current), plan).step
                       * locals.repeats
       /\ locals.repeats >= 2 =>
            act.dist <= Abs(opts.target - current)
                          - SafetyMargin(act.dist \div locals.repeats, plan, tol)

\* a batch of several presses that stops short by the safety margin
C32_Witness ==
  /\ prog = "batched"
  /\ pc = "act_begin"
  /\ locals.repeats >= 2
  /\ ~locals.isSmallest
  /\ SafetyMargin(act.dist \div locals.repeats, plan, tol) > tol
  /\ act.dist <= Abs(opts.target - current)
                   - SafetyMargin(act.dist \div locals.repeats, plan, tol)
  /\ act.dist + (act.dist \div locals.repeats) > Abs(opts.target - current) - tol

\* a single press that covers more than absRemaining - safetyMargin
C32_SinglePressBeyondMargin ==
  /\ prog = "batched"
  /\ pc = "act_begin"
  /\ locals.repeats = 1
  /\ act.dist > Abs(opts.target - current)
                  - SafetyMargin(act.dist, plan, tol)

\* an entry of aggregateAllHeldKeys closer to the target than half of the
\* next-smaller step
C32_AggregateIgnoresHalfStep ==
  /\ prog = "planner"
  /\ pc = "planned"
  /\ planOut.by = "aggregateAllHeldKeys"
  /\ planOut.segments # <<>>
  /\ ~EntriesWithin(planOut.segments,
        LAMBDA st : planOut.absRem - SafetyMargin(st, plan, planOut.tol))

(***************************************************************************)
(* C33                                                                     *)
(***************************************************************************)
\* C33: on every exit path of nudgeToTargetAxis (return or throw) neither
\* the TRIANGLE nor the SQUARE modifier is left held.
C33_ModifiersReleasedOnExit ==
  (prog = "cloneJob" /\ pc \in {"done", "threw"}) =>
    /\ KeyOf("TRIANGLE") \notin down
    /\ KeyOf("SQUARE") \notin down

\* the cancellation arrives during the timed hold of the direction key: the
\* direction key is released, the modifier stays down
C33_HeldAfterCancel ==
  /\ prog = "cloneJob"
  /\ pc = "threw"
  /\ err = "aborted"
  /\ abortAt = "cj_hold"
  /\ down = {KeyOf(CloneModifier(locals.iter))}
  /\ ups[KeyOf(act.dirKey)] = 1

\* the returns and the sensor failure leave no modifier down
C33_OtherExitsClean ==
  (prog = "cloneJob" /\ (pc = "done" \/ (pc = "threw" /\ err = "OCR failed")))
    => down = {}


(***************************************************************************)
(* C34                                                                     *)
(***************************************************************************)
\* the programs whose presses go through tap / the modifier bracket
BracketProgs == MoveToProgs \cup {"batched", "moveToTest", "simple"}

DirectionKeys == {KeyOf("DPAD_UP"), KeyOf("DPAD_DOWN"), KeyOf("DPAD_LEFT"),
                  KeyOf("DPAD_RIGHT")}

\* the modifier of the actuation under way, as a set of keys
HoldKeys(a) == IF HasHold(a) THEN {KeyOf(a.hold)} ELSE {}

\* the keys that are down at each position of one actuation
KeysDownAt(p, a) ==
  IF p \in {"sleep_lead", "tap", "sleep_tail", "release_hold"} THEN HoldKeys(a)
  ELSE IF p = "sleep_hold" THEN HoldKeys(a) \cup {KeyOf(a.dirKey)}
  ELSE {}

\* C34: at most one direction key is down at any time; within an actuation
\* bracketed by a modifier the keys go modifier-down, direction-down,
\* direction-up, modifier-up (so the direction key is down only while the
\* modifier is, and the modifier alone before and after it); and an actuation
\* starts, and every position between actuations is reached, with no key down.
C34_KeyOrder ==
  /\ Cardinality(down \cap DirectionKeys) <= 1
  /\ (prog \in BracketProgs /\ pc # AbortExit) => down = KeysDownAt(pc, act)

\* a direction key held inside a modifier bracket, after an earlier actuation
\* of the same move has released its keys
C34_Witness ==
  /\ prog \in BracketProgs
  /\ pc = "sleep_hold"
  /\ HasHold(act)
  /\ down = {KeyOf(act.hold), KeyOf(act.dirKey)}
  /\ rows >= 1

\* the modifier alone again after the direction key went up
C34_ModifierOutlastsDirection ==
  /\ prog \in BracketProgs
  /\ pc = "release_hold"
  /\ down = {KeyOf(act.hold)}
  /\ KeyOf(act.dirKey) \in RobotKeys
  /\ ups[KeyOf(act.dirKey)] >= 1
  /\ pending = ""


(***************************************************************************)
(* C35                                                                     *)
(***************************************************************************)
RECURSIVE DetailTotal(_)
DetailTotal(detail) ==
  IF detail = <<>> THEN 0
  ELSE Head(detail).step * Head(detail).repeats + DetailTotal(Tail(detail))

\* the sum of step x count over all groups of a grouped plan
RECURSIVE GroupsTotal(_)
GroupsTotal(groups) ==
  IF groups = <<>> THEN 0
  ELSE DetailTotal(Head(groups).detail) + GroupsTotal(Tail(groups))

\* v is a multiple of g nearest to x (either one when x lies half way)
NearestMultiple(v, x, g) == v % g = 0 /\ 2 * Abs(x - v) <= g

\* the sums of non-negative multiples of the steps up to limit
RECURSIVE Representable(_, _)
Representable(steps, limit) ==
  IF steps = <<>> THEN {0}
  ELSE LET rest == Representable(Tail(steps), limit)
           st   == Head(steps).step
       IN {r + k * st : r \in rest, k \in 0..(limit \div st)}

\* C35: for every requested distance and calibration table the plan
\* calculateClosestPlanGrouped returns has a total, the sum of step x count
\* over all groups, equal to the nearest multiple of the greatest common
\* divisor of the calibrated steps.
C35_TotalIsNearestMultiple ==
  (prog = "grouped" /\ pc = "planned") =>
    NearestMultiple(GroupsTotal(planOut.segments), opts.targetValue,
                    StepGcd(plan, plan[1].step))

\* the greedy decomposition stops short of a distance the steps can make up:
\* the request is itself a sum of steps, the plan's total is not the request
C35_GreedyFallsShort ==
  /\ prog = "grouped"
  /\ pc = "planned"
  /\ opts.targetValue \in Representable(plan, opts.targetValue)
  /\ planOut.covered = opts.targetValue
  /\ GroupsTotal(planOut.segments) < opts.targetValue

\* tables whose steps divide one another are planned as claimed
C35_ChainTablesExact ==
  (prog = "grouped" /\ pc = "planned" /\ opts.calibration # TableGap) =>
    NearestMultiple(GroupsTotal(planOut.segments), opts.targetValue,
                    StepGcd(plan, plan[1].step))


(***************************************************************************)
(* C36                                                                     *)
(***************************************************************************)
\* the caller supplies absTol and no fracTol
AbsTolOnly == prog = "moveToTest" /\ opts.given = {"absTol"}

\* C36: when a caller of moveToTest supplies absTol and no fracTol, the
\* fractional phase converges against absTol: it presses only while the
\* remaining distance is greater than absTol, and it reports ok exactly when
\* the final distance is within absTol.
C36_AbsTolIsTheFracTol ==
  /\ (AbsTolOnly /\ pc = "done") =>
       result.ok = (Abs(opts.target - result.final) <= opts.absTol)
  /\ (AbsTolOnly /\ pc = "f_seg" /\ segs # <<>>) =>
       Abs(opts.target - current) > opts.absTol

\* runTwoPhaseMovePosition's call ends within the absTol it passed and is
\* reported as not ok
C36_WithinAbsTolNotOk ==
  /\ AbsTolOnly
  /\ pc = "done"
  /\ Abs(opts.target - result.final) <= opts.absTol
  /\ ~result.ok

\* the fractional phase pressing although the distance is within absTol
C36_PressesWithinAbsTol ==
  /\ AbsTolOnly
  /\ pc \in ActuationPcs
  /\ locals.phase = "frac"
  /\ Abs(opts.target - current) <= opts.absTol

\* what the code does with absTol alone: the default 0.0005 decides
C36_DefaultDecides ==
  (AbsTolOnly /\ pc = "done") =>
    result.ok = (Abs(opts.target - result.final) <= MILLI \div 2)

\* absTol decides only when fracTol is passed and is not finite
C36_AbsTolUsedForNaNFracTol ==
  /\ prog = "moveToTest"
  /\ pc = "done"
  /\ opts.given = {"absTol", "fracTol"}
  /\ ~IsFinite(opts.fracTol)
  /\ result.ok
  /\ Abs(opts.target - result.final) > MILLI \div 2


(***************************************************************************)
(* C37                                                                     *)
(***************************************************************************)
\* the controller variants that return a result object
ControllerProgs == MoveToProgs \cup {"batched", "moveToTest", "simple"}

\* the tolerance the run compares against
ToleranceUsed ==
  IF prog = "moveToTest" THEN FracTolOf(opts)
  ELSE IF prog = "simple" THEN opts.tol
  ELSE tol

\* the returned object agrees with the last reading (moveToTest returns no
\* error field)
ReturnConsistent ==
  /\ result.final = current
  /\ prog # "moveToTest" => result.error = opts.target - result.final
  /\ result.ok = (Abs(opts.target - result.final) <= ToleranceUsed)

\* C37: on every return path of every controller variant the returned error
\* is target minus the returned final value, the final value is the most
\* recent sensor reading, and ok (or reached) is true exactly when
\* |target - final| is within the tolerance the run used.
C37_ReturnConsistent ==
  (prog \in ControllerProgs /\ pc = "done") => ReturnConsistent

\* the same with the simple variant called with maxLoops >= 1
C37_ReturnConsistentWithLoops ==
  (prog \in ControllerProgs /\ pc = "done"
     /\ (prog = "simple" => opts.maxLoops >= 1)) => ReturnConsistent

\* a return after presses and re-reads that ends outside the tolerance
C37_Witness ==
  /\ prog \in ControllerProgs
  /\ pc = "done"
  /\ pressed
  /\ current # first
  /\ ~result.ok
  /\ result.final = current

\* a return inside the tolerance after presses, by each variant
C37_OkAfterPresses ==
  /\ prog = "batched"
  /\ pc = "done"
  /\ pressed
  /\ result.ok
  /\ result.error = opts.target - current

\* the simple variant with maxLoops = 0 reading the target itself
C37_SimpleNoLoopAtTarget ==
  /\ prog = "simple"
  /\ pc = "done"
  /\ opts.maxLoops = 0
  /\ current = opts.target
  /\ ~result.ok


(***************************************************************************)
(* C38                                                                     *)
(***************************************************************************)
\* the positions at which a move or a calibration probe awaits the sensor
SensorReadPcs == ReadPcs \cup {"s_read0", "s_read", "tune_measure", "tune_read"}

\* the moves and the calibration probes
ReadingProgs == ControllerProgs \cup TuneProgs

\* C38: at the moment of every sensor read issued by a move or by a
\* calibration probe no direction key and no modifier key is held.
C38_NoKeyHeldAtRead ==
  (prog \in ReadingProgs /\ pc \in SensorReadPcs) => down = {}

\* the read after a modifier-bracketed press of a move: both keys have been
\* pressed and released
C38_Witness ==
  /\ prog \in ControllerProgs
  /\ pc \in SensorReadPcs
  /\ HasHold(act)
  /\ ups[KeyOf(act.hold)] >= 1
  /\ ups[KeyOf("DPAD_RIGHT")] >= 1 \/ ups[KeyOf("DPAD_LEFT")] >= 1
  /\ down = {}

\* the second read of a calibration probe pressed inside the SQUARE bracket
C38_ProbeRead ==
  /\ prog \in TuneProgs
  /\ pc = "tune_read"
  /\ act.hold = "SQUARE"
  /\ ups[KeyOf("SQUARE")] >= 1
  /\ ups[KeyOf("DPAD_RIGHT")] >= 1
  /\ down = {}


(***************************************************************************)
(* C39                                                                     *)
(***************************************************************************)
\* the read that follows the segments of an aggregated plan, on an actuator
\* that moves the reading by exactly step x repeats
ReadAfterPlan ==
  /\ prog \in MoveToProgs
  /\ sensor = "exact"
  /\ pc = "readA"
  /\ pc' \in Pcs \ {"readA", "threw", AbortExit}

\* the error after the plan against the error before it
PlanStaysShort ==
  ReadAfterPlan =>
    LET before == opts.target - current
        after  == opts.target - current'
    IN /\ before > 0 => after >= 0
       /\ before < 0 => after <= 0
       /\ Abs(after) >= tol
       /\ Abs(after) < Abs(before)
       /\ Abs(after) = planOut.absRem - planOut.covered

\* C39: with an actuator that changes the reading by exactly step x repeats,
\* executing a non-empty aggregated plan never overshoots: the remaining
\* error after the plan has the same sign as before (or is zero), and its
\* magnitude is at least tol and smaller than before.
C39_PlanNeverOvershoots == [][PlanStaysShort]_vars

\* after a plan of two segments or more the error is smaller, of the same
\* sign, and still outside the tolerance
C39_Witness ==
  /\ prog \in MoveToProgs
  /\ sensor = "exact"
  /\ pc = "ppB"
  /\ ~aggEmpty
  /\ Len(planOut.segments) >= 2
  /\ current # first
  /\ Abs(opts.target - current) = planOut.absRem - planOut.covered
  /\ Abs(opts.target - current) > tol

\* a plan that lands exactly at the distance tol from the target
C39_LandsAtTol ==
  /\ prog \in MoveToProgs
  /\ sensor = "exact"
  /\ pc = "ppB"
  /\ ~aggEmpty
  /\ planOut.covered > 0
  /\ Abs(opts.target - current) = tol


(***************************************************************************)
(* C40                                                                     *)
(***************************************************************************)
GreedyStart == [covered |-> 0, picks |-> <<>>]

\* every quotient of the greedy loop came out as the exact quotient's floor
ExactQuotients(cap, subPlan) ==
  greedyPicks(subPlan, cap, GreedyStart) = consumePlan(subPlan, cap, GreedyStart)

\* what is left of cap is smaller than every step of the table
ResidualBelowSteps(cap, covered, subPlan) ==
  \A i \in 1..Len(subPlan) : cap - covered < subPlan[i].step

\* the repeats of all segments of a plan
RECURSIVE RepeatsOf(_)
RepeatsOf(segments) ==
  IF segments = <<>> THEN 0
  ELSE Head(segments).repeatsTotal + RepeatsOf(Tail(segments))

\* a call of aggregateGreedy has returned
GreedyDone == prog = "aggregateGreedy" /\ pc = "planned"

C40_SamePlan ==
  /\ GreedyDone
  /\ opts.exact
  /\ opts.calibration = TableWhole
  /\ planOut.covered < opts.cap
  /\ planOut.covered > 0
  /\ planOut.segments = aggregateGreedy(opts.cap, plan, FALSE).segments

====
